---------------------------- MODULE Spec2Model ----------------------------
(***************************************************************************)
(* Model of the vulnerability aggregation and commit-linkage engine:       *)
(*   - DataCleaner        (src/src/data_pipeline/data_cleaner.py)          *)
(*   - GitCrawler queries (src/src/data_pipeline/git_crawler.py)           *)
(*   - the linker         (src/tools/run_link_commits.py, main)            *)
(*   - CVECollector       (src/src/data_pipeline/cve_collector.py)         *)
(*                                                                         *)
(* Python strings are modelled as sequences of one-character strings, so   *)
(* that regular-expression matching, case folding, formatting and          *)
(* splitting are computed on characters.  A dict whose keys are data (the  *)
(* pr_hits of an evidence) is the sequence of its <<key, value>> pairs in  *)
(* insertion order; a key a dict does not hold is a field equal to None.   *)
(***************************************************************************)
EXTENDS Integers, Sequences, FiniteSets, TLC

(***************************************************************************)
(* Characters and strings                                                  *)
(***************************************************************************)
\* Python None: a sequence that is no string (its element is not one character)
None == <<"None">>

Digits == {"0", "1", "2", "3", "4", "5", "6", "7", "8", "9"}

LowerSeq == <<"a", "b", "c", "d", "e", "f", "g", "h", "i", "j", "k", "l", "m",
              "n", "o", "p", "q", "r", "s", "t", "u", "v", "w", "x", "y", "z">>

UpperSeq == <<"A", "B", "C", "D", "E", "F", "G", "H", "I", "J", "K", "L", "M",
              "N", "O", "P", "Q", "R", "S", "T", "U", "V", "W", "X", "Y", "Z">>

LowerLetters == {LowerSeq[i] : i \in 1..26}

UpperLetters == {UpperSeq[i] : i \in 1..26}

IndexIn(seq, c) == CHOOSE i \in 1..Len(seq) : seq[i] = c

\* str.upper() / str.lower() on one character
UpperChar(c) == IF c \in LowerLetters THEN UpperSeq[IndexIn(LowerSeq, c)] ELSE c

LowerChar(c) == IF c \in UpperLetters THEN LowerSeq[IndexIn(UpperSeq, c)] ELSE c

Upper(s) == [i \in 1..Len(s) |-> UpperChar(s[i])]

Lower(s) == [i \in 1..Len(s) |-> LowerChar(s[i])]

\* characters in ASCII order, for Python's comparison of str values
AsciiSeq == <<" ", "#", "(", ")", "-", ".", "/">>
            \o <<"0", "1", "2", "3", "4", "5", "6", "7", "8", "9">>
            \o <<":">> \o UpperSeq \o <<"_">> \o LowerSeq \o <<"|">>

Code(c) == IndexIn(AsciiSeq, c)

\* Python: a < b for str values (lexicographic by code point)
StrLess(a, b) ==
    LET common == 1..(IF Len(a) < Len(b) THEN Len(a) ELSE Len(b))
    IN  IF \E i \in common : a[i] # b[i]
        THEN LET i == CHOOSE m \in common :
                         a[m] # b[m] /\ \A j \in 1..(m - 1) : a[j] = b[j]
             IN  Code(a[i]) < Code(b[i])
        ELSE Len(a) < Len(b)

\* s[i:i+len(p)] == p, case-insensitively (re.IGNORECASE on literal text)
HasAtCI(s, i, p) ==
    /\ i >= 1
    /\ i + Len(p) - 1 <= Len(s)
    /\ \A k \in 1..Len(p) : LowerChar(s[i + k - 1]) = LowerChar(p[k])

\* s.startswith(p)
StartsWith(s, p) ==
    /\ Len(p) <= Len(s)
    /\ \A k \in 1..Len(p) : s[k] = p[k]

\* number of consecutive characters of s from position i that lie in set
RunLen(s, i, set) ==
    Cardinality({n \in 1..(Len(s) - i + 1) :
                    \A k \in i..(i + n - 1) : s[k] \in set})

Min(a, b) == IF a < b THEN a ELSE b

\* order-preserving de-duplication: list(dict.fromkeys(seq))
RECURSIVE DedupeFrom(_, _)
DedupeFrom(seq, seen) ==
    IF seq = <<>> THEN <<>>
    ELSE IF Head(seq) \in seen THEN DedupeFrom(Tail(seq), seen)
    ELSE <<Head(seq)>> \o DedupeFrom(Tail(seq), seen \cup {Head(seq)})

\* a list kept as it is, repetitions included
Dedupe_Keep(seq) == seq

Dedupe(seq) == DedupeFrom(seq, {})

Range(seq) == {seq[i] : i \in 1..Len(seq)}

RECURSIVE Rep(_, _)
Rep(c, n) == IF n = 0 THEN <<>> ELSE <<c>> \o Rep(c, n - 1)

RECURSIVE Concat(_)
Concat(seqs) == IF seqs = <<>> THEN <<>> ELSE Head(seqs) \o Concat(Tail(seqs))

(***************************************************************************)
(* DataCleaner.CVE_RE and normalize_cve_id                                 *)
(***************************************************************************)
\* \w of the re module
IsWordChar(c) == c \in Digits \cup LowerLetters \cup UpperLetters \cup {"_"}

\* \b between s[p-1] and s[p]
WordBoundary(s, p) ==
    LET before == p - 1 >= 1 /\ p - 1 <= Len(s) /\ IsWordChar(s[p - 1])
        after  == p >= 1 /\ p <= Len(s) /\ IsWordChar(s[p])
    IN  before # after

\* \d{4}[-]\d{4,7}\b at position j: end position (exclusive) of the greedy
\* match, or 0 when there is none
CveTailEnd(s, j) ==
    IF /\ RunLen(s, j, Digits) >= 4
       /\ j + 4 <= Len(s)
       /\ s[j + 4] = "-"
    THEN LET n == Min(RunLen(s, j + 5, Digits), 7)
             ok == {k \in 4..n : WordBoundary(s, j + 5 + k)}
         IN  IF ok = {} THEN 0
             ELSE j + 5 + (CHOOSE k \in ok : \A m \in ok : m <= k)
    ELSE 0

\* r'\bCVE[-]?\d{4}[-]\d{4,7}\b' (re.IGNORECASE) anchored at position i:
\* end position (exclusive) or 0
CveMatchEnd(s, i) ==
    IF WordBoundary(s, i) /\ HasAtCI(s, i, <<"C", "V", "E">>)
    THEN LET withHyphen == IF i + 3 <= Len(s) /\ s[i + 3] = "-"
                           THEN CveTailEnd(s, i + 4) ELSE 0
         IN  IF withHyphen # 0 THEN withHyphen ELSE CveTailEnd(s, i + 3)
    ELSE 0

\* CVE_RE.findall(s): the non-overlapping matches, left to right
RECURSIVE CveFindAllFrom(_, _)
CveFindAllFrom(s, i) ==
    IF i > Len(s) THEN <<>>
    ELSE LET e == CveMatchEnd(s, i)
         IN  IF e = 0 THEN CveFindAllFrom(s, i + 1)
             ELSE <<SubSeq(s, i, e - 1)>> \o CveFindAllFrom(s, e)

CveFindAll(s) == CveFindAllFrom(s, 1)

\* CVE_RE.search(s): the first match, or None
CveSearch(s) == LET all == CveFindAll(s) IN IF all = <<>> THEN None ELSE Head(all)

\* str.strip() for the blank character
RECURSIVE LStrip(_)
LStrip(s) == IF s # <<>> /\ Head(s) = " " THEN LStrip(Tail(s)) ELSE s

RECURSIVE RStrip(_)
RStrip(s) ==
    IF s # <<>> /\ s[Len(s)] = " " THEN RStrip(SubSeq(s, 1, Len(s) - 1)) ELSE s

Strip(s) == LStrip(RStrip(s))

\* cand.replace('CVE', 'CVE-'): every non-overlapping occurrence
RECURSIVE ReplaceCve(_)
ReplaceCve(s) ==
    IF s = <<>> THEN <<>>
    ELSE IF StartsWith(s, <<"C", "V", "E">>)
         THEN <<"C", "V", "E", "-">> \o ReplaceCve(SubSeq(s, 4, Len(s)))
         ELSE <<Head(s)>> \o ReplaceCve(Tail(s))

\* DataCleaner.normalize_cve_id(raw); raw is a string or None
normalize_cve_id(raw) ==
    IF raw = None \/ raw = <<>> THEN None
    ELSE LET m == CveSearch(raw)
         IN  IF m = None
             THEN LET up   == Upper(Strip(raw))
                      cand == IF StartsWith(up, <<"C", "V", "E">>)
                                 /\ ~StartsWith(up, <<"C", "V", "E", "-">>)
                              THEN ReplaceCve(up) ELSE up
                      m2   == CveSearch(cand)
                  IN  IF m2 # None THEN Upper(m2) ELSE None
             ELSE Upper(m)

(***************************************************************************)
(* run_link_commits._extract_strong_signals                                *)
(***************************************************************************)
HexChars == Digits \cup {"a", "b", "c", "d", "e", "f"}
                   \cup {"A", "B", "C", "D", "E", "F"}

SlashCommit == <<"/", "c", "o", "m", "m", "i", "t", "/">>

SlashDashCommit == <<"/", "-", "/">> \o Tail(SlashCommit)

SlashPull == <<"/", "p", "u", "l", "l", "/">>

SlashPulls == <<"/", "p", "u", "l", "l", "s", "/">>

\* length of the alternation (?:a|b) matched at position i, 0 when neither
AltLen(s, i, a, b) ==
    IF HasAtCI(s, i, a) THEN Len(a)
    ELSE IF HasAtCI(s, i, b) THEN Len(b)
    ELSE 0

\* _COMMIT_SHA_RE.findall(u): r'(?i)(?:/commit/|/-/commit/)([0-9a-f]{7,40})'
RECURSIVE CommitShaFindAllFrom(_, _)
CommitShaFindAllFrom(u, i) ==
    IF i > Len(u) THEN <<>>
    ELSE LET p == AltLen(u, i, SlashCommit, SlashDashCommit)
             n == Min(RunLen(u, i + p, HexChars), 40)
         IN  IF p > 0 /\ n >= 7
             THEN <<SubSeq(u, i + p, i + p + n - 1)>>
                  \o CommitShaFindAllFrom(u, i + p + n)
             ELSE CommitShaFindAllFrom(u, i + 1)

\* _PR_RE.findall(u): r'(?i)(?:/pull/|/pulls/)(\d+)'
RECURSIVE PrFindAllFrom(_, _)
PrFindAllFrom(u, i) ==
    IF i > Len(u) THEN <<>>
    ELSE LET p == AltLen(u, i, SlashPull, SlashPulls)
             n == RunLen(u, i + p, Digits)
         IN  IF p > 0 /\ n >= 1
             THEN <<SubSeq(u, i + p, i + p + n - 1)>>
                  \o PrFindAllFrom(u, i + p + n)
             ELSE PrFindAllFrom(u, i + 1)

DigitValue(c) == Code(c) - Code("0")

\* int(m) for a string of decimal digits
RECURSIVE IntOf(_)
IntOf(ds) ==
    IF ds = <<>> THEN 0
    ELSE 10 * IntOf(SubSeq(ds, 1, Len(ds) - 1)) + DigitValue(ds[Len(ds)])

\* str(n) for n >= 0
RECURSIVE DecStr(_)
DecStr(n) ==
    IF n < 10 THEN <<AsciiSeq[Code("0") + n]>>
    ELSE DecStr(n \div 10) \o <<AsciiSeq[Code("0") + (n % 10)]>>

\* the urls list: stripped non-blank strings
RECURSIVE StrippedUrls(_)
StrippedUrls(refs) ==
    IF refs = <<>> THEN <<>>
    ELSE (IF Strip(Head(refs)) # <<>> THEN <<Strip(Head(refs))>> ELSE <<>>)
         \o StrippedUrls(Tail(refs))

RECURSIVE ShasOfUrls(_)
ShasOfUrls(urls) ==
    IF urls = <<>> THEN <<>>
    ELSE LET found == CommitShaFindAllFrom(Head(urls), 1)
         IN  [k \in 1..Len(found) |-> Lower(found[k])] \o ShasOfUrls(Tail(urls))

RECURSIVE PrsOfUrls(_)
PrsOfUrls(urls) ==
    IF urls = <<>> THEN <<>>
    ELSE LET found == PrFindAllFrom(Head(urls), 1)
         IN  [k \in 1..Len(found) |-> IntOf(found[k])] \o PrsOfUrls(Tail(urls))

\* _extract_strong_signals(refs) -> (commit_shas, pr_numbers, urls)
extract_strong_signals(refs) ==
    LET urls == StrippedUrls(refs)
    IN  [commit_shas |-> Dedupe(ShasOfUrls(urls)),
         pr_numbers  |-> Dedupe(PrsOfUrls(urls)),
         urls        |-> Dedupe(urls)]

(***************************************************************************)
(* GitCrawler point queries.  The repository is the list of its commits,   *)
(* most recent first, each [hash, subject]; git itself is modelled by what *)
(* the invoked commands compute.                                           *)
(***************************************************************************)
\* text contains pattern, case-insensitively (--grep with --regexp-ignore-case;
\* the patterns used hold no regular-expression metacharacter)
ContainsCI(text, pattern) ==
    \E i \in 1..(Len(text) + 1) : HasAtCI(text, i, pattern)

RECURSIVE SelectCommits(_, _)
SelectCommits(log, pattern) ==
    IF log = <<>> THEN <<>>
    ELSE (IF ContainsCI(Head(log).subject, pattern) THEN <<Head(log)>> ELSE <<>>)
         \o SelectCommits(Tail(log), pattern)

Take(seq, n) == SubSeq(seq, 1, Min(n, Len(seq)))

\* git cat-file -e <sha>^{commit} exits 0: sha names exactly one commit,
\* in full or abbreviated
GitResolves(log, sha) ==
    Cardinality({k \in 1..Len(log) : StartsWith(log[k].hash, sha)}) = 1

\* GitCrawler.commit_exists(repo_path, sha)
commit_exists(log, sha) ==
    IF sha = <<>> THEN FALSE ELSE GitResolves(log, sha)

\* GitCrawler.grep_commits(repo_path, pattern, max_hits)
grep_commits(log, pattern, max_hits) ==
    IF pattern = <<>> THEN <<>>
    ELSE LET out == Take(SelectCommits(log, pattern), max_hits)
         IN  [k \in 1..Len(out) |-> out[k].hash]

(***************************************************************************)
(* DataCleaner.clean_cves and associate_with_commits                       *)
(***************************************************************************)
\* one iteration of clean_cves: only id, raw_id and references are kept of the
\* fields modelled here; keys such as matched_commits are not copied
CleanOne(item) ==
    [id         |-> IF item.id = None \/ item.id = <<>> THEN None
                    ELSE normalize_cve_id(item.id),
     raw_id     |-> item.id,
     references |-> item.references]

clean_cves(cve_list) == [k \in 1..Len(cve_list) |-> CleanOne(cve_list[k])]

\* an index that files a commit under the first id of its subject only
HashesForIds_FirstIdOnly(rawIds, cid, hash) ==
    IF rawIds # <<>> /\ normalize_cve_id(Head(rawIds)) = cid THEN <<hash>>
    ELSE <<>>

\* the hashes one commit appends to the bucket of cid (lines 95-104)
RECURSIVE HashesForIds(_, _, _)
HashesForIds(rawIds, cid, hash) ==
    IF rawIds = <<>> THEN <<>>
    ELSE (IF normalize_cve_id(Head(rawIds)) = cid THEN <<hash>> ELSE <<>>)
         \o HashesForIds(Tail(rawIds), cid, hash)

\* cve_to_hashes.get(cid, []) after the index is built
RECURSIVE Bucket(_, _)
Bucket(commits, cid) ==
    IF commits = <<>> THEN <<>>
    ELSE LET c == Head(commits)
         IN  (IF c.hash = <<>> \/ c.subject = <<>> THEN <<>>
              ELSE HashesForIds(CveFindAll(c.subject), cid, c.hash))
             \o Bucket(Tail(commits), cid)

\* the evidence dict with none of its keys set
NoEvidence == [urls |-> None, commit_shas |-> None, pr_hits |-> None]

AssociateOne(cve, commits) ==
    LET matched_hashes == IF cve.id # None THEN Dedupe(Bucket(commits, cve.id))
                          ELSE <<>>
    IN  [id                    |-> cve.id,
         raw_id                |-> cve.raw_id,
         references            |-> cve.references,
         matched               |-> matched_hashes # <<>>,
         matched_commits       |-> matched_hashes,
         matched_commits_count |-> Len(matched_hashes),
         match_types           |-> None,
         evidence              |-> NoEvidence]

\* an association that returns the records in reverse order
associate_with_commits_Reversed(cves, commits) ==
    [k \in 1..Len(cves) |-> AssociateOne(cves[Len(cves) + 1 - k], commits)]

\* an association that looks at the commits for its first record only
associate_with_commits_HeadOnly(cves, commits) ==
    [k \in 1..Len(cves) |->
        AssociateOne(cves[k], IF k = 1 THEN commits ELSE <<>>)]

\* DataCleaner.associate_with_commits(cves, commits); match_types and
\* evidence are keys the result does not carry yet (None)
associate_with_commits(cves, commits) ==
    [k \in 1..Len(cves) |-> AssociateOne(cves[k], commits)]

(***************************************************************************)
(* The linker: run_link_commits.main                                       *)
(***************************************************************************)
cve_in_subject == <<"c", "v", "e", "_", "i", "n", "_",
                    "s", "u", "b", "j", "e", "c", "t">>

commit_reference == <<"c", "o", "m", "m", "i", "t", "_",
                      "r", "e", "f", "e", "r", "e", "n", "c", "e">>

pr_reference == <<"p", "r", "_", "r", "e", "f", "e", "r", "e", "n", "c", "e">>

\* sorted(set_of_strings)
RECURSIVE Sorted(_)
Sorted(set) ==
    IF set = {} THEN <<>>
    ELSE LET least == CHOOSE a \in set : \A b \in set : ~StrLess(b, a)
         IN  <<least>> \o Sorted(set \ {least})

\* x or [] for a list that may be None
OrEmpty(x) == IF x = None THEN <<>> ELSE x

\* the loop of lines 134-138 on one item
MarkStrictOne(item) ==
    LET withDefault == OrEmpty(item.match_types)
    IN  [item EXCEPT !.match_types =
            IF item.matched
            THEN Sorted(Range(withDefault) \cup {cve_in_subject})
            ELSE withDefault]

MarkStrict(items) == [k \in 1..Len(items) |-> MarkStrictOne(items[k])]

PullRequestHash == <<"p", "u", "l", "l", " ",
                     "r", "e", "q", "u", "e", "s", "t", " ", "#">>

\* the patterns of lines 172-177, in the order they are tried
PrPatterns(pr) ==
    << <<"M", "e", "r", "g", "e", " ">> \o PullRequestHash \o DecStr(pr),
       PullRequestHash \o DecStr(pr),
       <<"P", "R", " ", "#">> \o DecStr(pr),
       <<"#">> \o DecStr(pr) >>

\* the inner loop of lines 178-183 without the break
RECURSIVE TryPatterns_NoBreak(_, _, _, _)
TryPatterns_NoBreak(log, patterns, max_hits, hits) ==
    IF patterns = <<>> THEN [hits |-> hits, tried |-> <<>>]
    ELSE LET h    == hits \o grep_commits(log, Head(patterns), max_hits)
             rest == TryPatterns_NoBreak(log, Tail(patterns), max_hits, h)
         IN  [hits |-> rest.hits, tried |-> <<Head(patterns)>> \o rest.tried]

\* the inner loop of lines 178-183: the hits and the patterns searched
RECURSIVE TryPatterns(_, _, _, _)
TryPatterns(log, patterns, max_hits, hits) ==
    IF patterns = <<>> THEN [hits |-> hits, tried |-> <<>>]
    ELSE LET h == hits \o grep_commits(log, Head(patterns), max_hits)
         IN  IF h # <<>>
             THEN [hits |-> h, tried |-> <<Head(patterns)>>]
             ELSE LET rest == TryPatterns(log, Tail(patterns), max_hits, h)
                  IN  [hits  |-> rest.hits,
                       tried |-> <<Head(patterns)>> \o rest.tried]

GrepCall(k, pattern) == [op |-> "grep_commits", item |-> k, arg |-> pattern]

ExistsCall(k, sha) == [op |-> "commit_exists", item |-> k, arg |-> sha]

\* the loop of lines 170-186 for item k: the pr_hits dict, the hashes
\* appended to matched_hashes, and the grep_commits calls issued
RECURSIVE PrLoop(_, _, _, _)
PrLoop(log, prs, max_hits, k) ==
    IF prs = <<>> THEN [pr_hits |-> <<>>, hashes |-> <<>>, calls |-> <<>>]
    ELSE LET r    == TryPatterns(log, PrPatterns(Head(prs)), max_hits, <<>>)
             rest == PrLoop(log, Tail(prs), max_hits, k)
             hits == Dedupe(r.hits)
         IN  [pr_hits |-> (IF r.hits # <<>>
                           THEN << <<DecStr(Head(prs)), hits>> >> ELSE <<>>)
                          \o rest.pr_hits,
              hashes  |-> (IF r.hits # <<>> THEN hits ELSE <<>>) \o rest.hashes,
              calls   |-> [n \in 1..Len(r.tried) |-> GrepCall(k, r.tried[n])]
                          \o rest.calls]

\* a Tier B that accepts every well-formed hash
ValidShas_Unchecked(log, shas) == shas

\* the loop of lines 158-162: the validated hashes
RECURSIVE ValidShas(_, _)
ValidShas(log, shas) ==
    IF shas = <<>> THEN <<>>
    ELSE (IF commit_exists(log, Head(shas)) THEN <<Head(shas)>> ELSE <<>>)
         \o ValidShas(log, Tail(shas))

\* the tag lines 164-165 add, decided on the candidates instead of on the
\* validated hashes
CommitRefTypes_Candidates(commit_shas, valid_shas) ==
    IF commit_shas # <<>> THEN {commit_reference} ELSE {}

\* lines 164-165
CommitRefTypes(commit_shas, valid_shas) ==
    IF valid_shas # <<>> THEN {commit_reference} ELSE {}

\* a Tier C that is skipped once Tier B has validated a hash
PrNumbersTried_OnlyWithoutSha(pr_numbers, valid_shas) ==
    IF valid_shas # <<>> THEN <<>> ELSE pr_numbers

\* line 170: the loop over pr_numbers runs whatever Tier B found
PrNumbersTried(pr_numbers, valid_shas) == pr_numbers

\* the flag of Tier A kept instead of recomputed
MatchedFlag_Stale(item, matched_hashes) == item.matched

\* line 197: bool(matched_hashes)
MatchedFlag(item, matched_hashes) == matched_hashes # <<>>

\* lines 148-197 for item k, which Tier A left unmatched
StrongSignals(item, log, max_hits, k) ==
    LET sig            == extract_strong_signals(OrEmpty(item.references))
        evidence_urls  == Dedupe(OrEmpty(item.evidence.urls) \o sig.urls)
        valid_shas     == ValidShas(log, sig.commit_shas)
        prs            == PrLoop(log, PrNumbersTried(sig.pr_numbers, valid_shas),
                                 max_hits, k)
        matched_hashes == Dedupe(OrEmpty(item.matched_commits)
                                 \o valid_shas \o prs.hashes)
        match_types    == Range(OrEmpty(item.match_types))
                          \cup CommitRefTypes(sig.commit_shas, valid_shas)
                          \cup (IF prs.pr_hits # <<>>
                                THEN {pr_reference} ELSE {})
    IN  [item  |-> [item EXCEPT
                      !.matched_commits = matched_hashes,
                      !.matched_commits_count = Len(matched_hashes),
                      !.match_types = Sorted(match_types),
                      !.evidence = [urls        |-> evidence_urls,
                                    commit_shas |-> IF valid_shas # <<>>
                                                    THEN valid_shas
                                                    ELSE item.evidence.commit_shas,
                                    pr_hits     |-> IF prs.pr_hits # <<>>
                                                    THEN prs.pr_hits
                                                    ELSE item.evidence.pr_hits],
                      !.matched = MatchedFlag(item, matched_hashes)],
         calls |-> [n \in 1..Len(sig.commit_shas) |->
                        ExistsCall(k, sig.commit_shas[n])]
                   \o prs.calls]

\* the loop of lines 144-200 without the continue of lines 145-146
LinkItem_NoSkip(item, log, max_hits, k) == StrongSignals(item, log, max_hits, k)

\* a loop that also passes over the records without id
LinkItem_SkipsNullId(item, log, max_hits, k) ==
    IF item.matched \/ item.id = None THEN [item |-> item, calls |-> <<>>]
    ELSE StrongSignals(item, log, max_hits, k)

\* one iteration of the loop of lines 144-200
LinkItem(item, log, max_hits, k) ==
    IF item.matched THEN [item |-> item, calls |-> <<>>]
    ELSE StrongSignals(item, log, max_hits, k)

(***************************************************************************)
(* Inputs of the linker runs that are explored                             *)
(***************************************************************************)
MaxVulns == 2

MaxCommits == 2

\* the default of --max-pr-hits
DefaultMaxPrHits == 20

\* --max-pr-hits
MaxPrHitsArgs == {0, 1, DefaultMaxPrHits}

Cve20201234 == <<"C", "V", "E", "-", "2", "0", "2", "0", "-", "1", "2", "3", "4">>

Cve20219999 == <<"C", "V", "E", "-", "2", "0", "2", "1", "-", "9", "9", "9", "9">>

GhsaId == <<"G", "H", "S", "A", "-", "x", "x", "x", "x">>

ShaDeadbeef == Concat(Rep(<<"d", "e", "a", "d", "b", "e", "e", "f">>, 5))

ShaAbcd111 == <<"a", "b", "c", "d", "1", "1", "1">> \o Rep("0", 33)

ShaAbc123 == <<"a", "b", "c", "1", "2", "3">> \o Rep("0", 34)

ShaFeed == Concat(Rep(<<"f", "e", "e", "d">>, 10))

RepoUrl == <<"h", "t", "t", "p", "s", ":", "/", "/", "g", "i", "t", "h", "u", "b",
             ".", "c", "o", "m", "/", "x", "/", "y">>

UrlCommitDeadbeef == RepoUrl \o SlashCommit \o ShaDeadbeef

\* an abbreviated hash, written in upper case
UrlCommitShort == RepoUrl \o SlashCommit \o Upper(SubSeq(ShaAbcd111, 1, 7))

UrlPull42 == RepoUrl \o SlashPull \o <<"4", "2">>

UrlAdvisory == RepoUrl \o <<"/", "s", "e", "c", "u", "r", "i", "t", "y">>

SubjectFix9999 == <<"F", "i", "x", " ">> \o Cve20219999
                  \o <<" ", "o", "v", "e", "r", "f", "l", "o", "w">>

\* names one id twice, once in lower case, and a pull request
SubjectTwice1234 == Lower(Cve20201234) \o <<" ">> \o Cve20201234
                    \o <<" ", "(", "#", "4", "2", ")">>

SubjectBump42 == <<"B", "u", "m", "p", " ", "(", "#", "4", "2", ")">>

SubjectMerge42 == <<"M", "e", "r", "g", "e", " ">> \o PullRequestHash
                  \o <<"4", "2">>

\* the commits a repository may hold
CommitCatalogue ==
    { [hash |-> ShaAbc123,   subject |-> SubjectFix9999],
      [hash |-> ShaAbcd111,  subject |-> SubjectTwice1234],
      [hash |-> ShaDeadbeef, subject |-> SubjectBump42],
      [hash |-> ShaFeed,     subject |-> SubjectMerge42] }

\* the vulnerability records a CVE JSON file may hold; matched_commits is
\* the key an earlier linking run left in the record (None: no such key)
VulnCatalogue ==
    << [id |-> Cve20219999, references |-> <<UrlCommitDeadbeef, UrlPull42>>,
        matched_commits |-> None],
       [id |-> Lower(Cve20201234), references |-> <<UrlCommitDeadbeef>>,
        matched_commits |-> None],
       [id |-> GhsaId, references |-> <<UrlPull42>>,
        matched_commits |-> None],
       [id |-> None, references |-> <<UrlCommitShort, UrlAdvisory, UrlPull42>>,
        matched_commits |-> None],
       [id |-> Cve20201234, references |-> <<>>,
        matched_commits |-> <<ShaAbc123>>] >>

\* the elements of seq at the positions of S from i on, in the order of seq
RECURSIVE PickFrom(_, _, _)
PickFrom(seq, S, i) ==
    IF i > Len(seq) THEN <<>>
    ELSE (IF i \in S THEN <<seq[i]>> ELSE <<>>) \o PickFrom(seq, S, i + 1)

SeqsUpTo(set, n) == UNION {[1..m -> set] : m \in 0..n}

IsInjective(seq) == \A a, b \in 1..Len(seq) : seq[a] = seq[b] => a = b

\* a repository never holds one hash twice
RepoLogs == {log \in SeqsUpTo(CommitCatalogue, MaxCommits) : IsInjective(log)}

\* the CVE JSON files explored: at most MaxVulns records of the catalogue,
\* in its order (the loops treat each record on its own)
CveInputs ==
    {PickFrom(VulnCatalogue, S, 1) :
        S \in {T \in SUBSET (1..Len(VulnCatalogue)) : Cardinality(T) <= MaxVulns}}

\* --grep: the default 'CVE', or "" for no filter
GrepArgs == {<<"C", "V", "E">>, <<>>}

\* --repo: absent, not a directory, a directory that is no git repository, a
\* git repository
RepoPaths == {"", "nodir", "notgit", "git"}

\* the default of collect's max_items, None (cve_collector.py:339), as an
\* integer no caller passes
NoLimit == -1

(***************************************************************************)
(* State                                                                   *)
(***************************************************************************)
VARIABLES
    lpc,          \* position of main: start, load, crawl, associate, mark,
                  \* strong, done
    exit_code,    \* return value of main, -1 while it runs
    repo_path,    \* args.repo
    grep_arg,     \* args.grep
    max_pr_hits,  \* args.max_pr_hits
    cves,         \* the loaded CVE JSON
    repoLog,      \* the commits of the repository at repo_path
    commits,      \* what crawl returned
    linked,       \* the list being linked
    idx,          \* index of the item the loop of line 144 is at
    gitCalls,     \* the commit_exists and grep_commits calls issued so far
    written       \* the output artifacts written so far

linkVars == <<lpc, exit_code, repo_path, grep_arg, max_pr_hits, cves, repoLog,
              commits, linked, idx, gitCalls, written>>

VARIABLES
    cpc,          \* position of collect: start, a source name, merge, sort,
                  \* done; raised when an exception leaves collect
    enabled,      \* self.enabled_sources
    keyword,      \* the keyword argument
    max_items,    \* the max_items argument, NoLimit for None
    queries,      \* the source queries made so far: the source, the
                  \* responses the server holds for it, and the startIndex
                  \* of the requests made
    results,      \* the raw records appended so far
    merged,       \* the values of the merged dict, in insertion order
    final         \* the list collect returns

collectVars == <<cpc, enabled, keyword, max_items, queries, results, merged,
                 final>>

VARIABLES
    apc,          \* position of a single library call: called, returned;
                  \* idle while the linker or the collector runs
    call,         \* the operation called and its arguments
    answer        \* what the call returned, or that it raised

apiVars == <<apc, call, answer>>

VARIABLES
    npc,          \* position of one paginated NVD query: loop, returned,
                  \* raised; idle while something else runs
    use_v2,       \* TRUE for _query_nvd_v2, FALSE for _query_nvd
    startIndex,   \* the local start_index
    nvd_results,  \* the local results
    sent,         \* the startIndex parameter of every request made
    received      \* the response to every request made

pageVars == <<npc, use_v2, startIndex, nvd_results, sent, received>>

vars == <<linkVars, collectVars, apiVars, pageVars>>

\* no NVD query on its own
PagesIdle ==
    /\ npc = "idle"
    /\ use_v2 = FALSE
    /\ startIndex = 0
    /\ nvd_results = <<>>
    /\ sent = <<>>
    /\ received = <<>>

\* no library call on its own
ApiIdle ==
    /\ apc = "idle"
    /\ call = [op |-> "none", arg |-> [raw |-> <<>>]]
    /\ answer = [raised |-> FALSE, value |-> <<>>]

\* the collector at rest, while the linker runs
CollectIdle ==
    /\ cpc = "idle"
    /\ enabled = <<>>
    /\ keyword = <<>>
    /\ max_items = NoLimit
    /\ queries = <<>>
    /\ results = <<>>
    /\ merged = <<>>
    /\ final = <<>>

LinkStart ==
    /\ lpc = "start"
    /\ exit_code = -1
    /\ repo_path = ""
    /\ grep_arg = <<>>
    /\ max_pr_hits = 0
    /\ cves = <<>>
    /\ repoLog = <<>>
    /\ commits = <<>>
    /\ linked = <<>>
    /\ idx = 0
    /\ gitCalls = <<>>
    /\ written = {}

LinkInit == LinkStart /\ CollectIdle /\ ApiIdle /\ PagesIdle

\* GitCrawler.crawl as main calls it: git log --grep <grep>
\* --regexp-ignore-case when grep is given
crawl(log, grep) ==
    LET kept == IF grep = <<>> THEN log ELSE SelectCommits(log, grep)
    IN  [k \in 1..Len(kept) |-> [hash |-> kept[k].hash, subject |-> kept[k].subject]]

\* lines 98-104: parse the arguments, fail on a missing repo path
ParseArgs ==
    /\ lpc = "start"
    /\ \E rp \in RepoPaths, g \in GrepArgs, mh \in MaxPrHitsArgs :
        /\ repo_path' = rp
        /\ grep_arg' = g
        /\ max_pr_hits' = mh
        /\ IF rp = ""
           THEN lpc' = "done" /\ exit_code' = 1
           ELSE lpc' = "load" /\ UNCHANGED exit_code
    /\ UNCHANGED <<cves, repoLog, commits, linked, idx, gitCalls, written>>

\* lines 106-110: load the CVE JSON, fail when there is nothing to link
LoadCves ==
    /\ lpc = "load"
    /\ \E cv \in CveInputs :
        /\ cves' = cv
        /\ IF cv = <<>>
           THEN lpc' = "done" /\ exit_code' = 2
           ELSE lpc' = "crawl" /\ UNCHANGED exit_code
    /\ UNCHANGED <<repo_path, grep_arg, max_pr_hits, repoLog, commits, linked,
                   idx, gitCalls, written>>

\* lines 112-124, crawl raising: the path is no directory or no git
\* repository, or git log fails
CrawlFails ==
    /\ lpc = "crawl"
    /\ lpc' = "done"
    /\ exit_code' = 3
    /\ UNCHANGED <<repo_path, grep_arg, max_pr_hits, cves, repoLog, commits,
                   linked, idx, gitCalls, written>>

\* lines 112-121, crawl returning: the path is a git repository with at
\* least one commit (git log fails in a repository without any). crawl saves
\* the commits JSON itself (git_crawler.py:213-225), but returns before that
\* when git log printed nothing (lines 156-157)
CrawlReturns ==
    /\ lpc = "crawl"
    /\ repo_path = "git"
    /\ \E log \in RepoLogs \ {<<>>} :
        /\ repoLog' = log
        /\ commits' = crawl(log, grep_arg)
        /\ written' = IF crawl(log, grep_arg) = <<>> THEN written
                      ELSE written \cup {"commits_json"}
    /\ lpc' = "associate"
    /\ UNCHANGED <<exit_code, repo_path, grep_arg, max_pr_hits, cves, linked,
                   idx, gitCalls>>

\* lines 126-130: Tier A
Associate ==
    /\ lpc = "associate"
    /\ linked' = associate_with_commits(clean_cves(cves), commits)
    /\ lpc' = "mark"
    /\ UNCHANGED <<exit_code, repo_path, grep_arg, max_pr_hits, cves, repoLog,
                   commits, idx, gitCalls, written>>

\* lines 132-138
MarkStrictStep ==
    /\ lpc = "mark"
    /\ linked' = MarkStrict(linked)
    /\ idx' = 1
    /\ lpc' = "strong"
    /\ UNCHANGED <<exit_code, repo_path, grep_arg, max_pr_hits, cves, repoLog,
                   commits, gitCalls, written>>

\* lines 144-200, one item
LinkStep ==
    /\ lpc = "strong"
    /\ idx <= Len(linked)
    /\ LET r == LinkItem(linked[idx], repoLog, max_pr_hits, idx)
       IN  /\ linked' = [linked EXCEPT ![idx] = r.item]
           /\ gitCalls' = gitCalls \o r.calls
    /\ idx' = idx + 1
    /\ UNCHANGED <<lpc, exit_code, repo_path, grep_arg, max_pr_hits, cves,
                   repoLog, commits, written>>

\* lines 202-218: write the linked JSON and its CSV, return 0
SaveOutputs ==
    /\ lpc = "strong"
    /\ idx > Len(linked)
    /\ written' = written \cup {"out_json", "csv"}
    /\ exit_code' = 0
    /\ lpc' = "done"
    /\ UNCHANGED <<repo_path, grep_arg, max_pr_hits, cves, repoLog, commits,
                   linked, idx, gitCalls>>

LinkNext ==
    \/ ParseArgs /\ UNCHANGED <<collectVars, apiVars, pageVars>>
    \/ LoadCves /\ UNCHANGED <<collectVars, apiVars, pageVars>>
    \/ CrawlFails /\ UNCHANGED <<collectVars, apiVars, pageVars>>
    \/ CrawlReturns /\ UNCHANGED <<collectVars, apiVars, pageVars>>
    \/ Associate /\ UNCHANGED <<collectVars, apiVars, pageVars>>
    \/ MarkStrictStep /\ UNCHANGED <<collectVars, apiVars, pageVars>>
    \/ LinkStep /\ UNCHANGED <<collectVars, apiVars, pageVars>>
    \/ SaveOutputs /\ UNCHANGED <<collectVars, apiVars, pageVars>>

SpecLink == LinkInit /\ [][LinkNext]_vars

LinkDone == lpc = "done" /\ exit_code = 0

(***************************************************************************)
(* Properties of the linker                                                *)
(***************************************************************************)
Items == 1..Len(linked)

TypesOf(k) == Range(OrEmpty(linked[k].match_types))

\* item k was matched by Tier A
ByTierA(k) == cve_in_subject \in TypesOf(k)

InRepo(sha) == \E n \in 1..Len(repoLog) : repoLog[n].hash = sha

\* the patterns of the grep_commits calls issued for item k, in call order
GrepArgsOf(k) ==
    LET IsGrepOfK(c) == c.op = "grep_commits" /\ c.item = k
        sel == SelectSeq(gitCalls, IsGrepOfK)
    IN  [n \in 1..Len(sel) |-> sel[n].arg]

CallsOf(k) == {n \in 1..Len(gitCalls) : gitCalls[n].item = k}

\* d[key] for a dict given as its <<key, value>> pairs; None without the key
DictGet(d, key) ==
    IF d # None /\ \E n \in 1..Len(d) : d[n][1] = key
    THEN d[CHOOSE n \in 1..Len(d) : d[n][1] = key][2]
    ELSE None

\* a is b with some elements left out
RECURSIVE IsSubsequence(_, _)
IsSubsequence(a, b) ==
    IF a = <<>> THEN TRUE
    ELSE IF b = <<>> THEN FALSE
    ELSE IF Head(a) = Head(b) THEN IsSubsequence(Tail(a), Tail(b))
    ELSE IsSubsequence(a, Tail(b))

\* C1: after a linking run every record has matched = (matched_commits is
\* non-empty), whichever tiers were applied to it.
C1_MatchedIffCommits ==
    LinkDone => \A k \in Items :
        linked[k].matched = (linked[k].matched_commits # <<>>)

\* a finished run holding a record Tier A matched, or one only Tier B or C
\* matched, next to a record no tier matched
C1_Witness ==
    /\ LinkDone
    /\ \E k \in Items : linked[k].matched /\ ~ByTierA(k)
    /\ \E k \in Items : ~linked[k].matched
                        /\ OrEmpty(linked[k].references) # <<>>

\* C2: after a linking run match_types is non-empty iff matched is true; a
\* matched record carries at least one of the three tags, an unmatched
\* record none.
C2_TypesIffMatched ==
    LinkDone => \A k \in Items :
        /\ TypesOf(k) \subseteq {cve_in_subject, commit_reference, pr_reference}
        /\ linked[k].matched <=> (linked[k].match_types # <<>>)

\* a finished run with an unmatched record whose reference names a commit
\* the repository does not hold, next to a matched record
C2_Witness ==
    /\ LinkDone
    /\ \E k \in Items :
        /\ ~linked[k].matched
        /\ extract_strong_signals(linked[k].references).commit_shas # <<>>
    /\ \E k \in Items : linked[k].matched

C4_State ==
    lpc \in {"strong", "done"} => \A k \in Items :
        ByTierA(k) =>
            /\ linked[k].match_types = <<cve_in_subject>>
            /\ linked[k].matched /\ linked[k].matched_commits # <<>>
            /\ linked[k].evidence = NoEvidence
            /\ CallsOf(k) = {}

C4_Step ==
    lpc = "strong" => \A k \in Items : ByTierA(k) => linked'[k] = linked[k]

\* C4: for a record Tier A matched, Tiers B and C are not evaluated: its
\* references are not scanned, no commit_exists or grep_commits call is
\* issued for it, and its match_types stays [cve_in_subject] and its
\* matched_commits the Tier A bucket, whatever its references hold.
C4_TierAShortCircuits == [](C4_State) /\ [][C4_Step]_vars

\* a finished run with a Tier A match whose references name a commit of the
\* repository and a pull request that a commit message mentions
C4_Witness ==
    /\ LinkDone
    /\ \E k \in Items :
        /\ linked[k].match_types = <<cve_in_subject>>
        /\ linked[k].references = <<UrlCommitDeadbeef, UrlPull42>>
        /\ InRepo(ShaDeadbeef)
        /\ grep_commits(repoLog, <<"#", "4", "2">>, max_pr_hits) # <<>>

\* C5: a record given to the linker with matched_commits keeps every hash
\* listed, in the same relative order, and stays matched.
C5_PriorCommitsKept ==
    LinkDone => \A k \in Items :
        LET prior == OrEmpty(cves[k].matched_commits)
        IN  /\ IsSubsequence(prior, linked[k].matched_commits)
            /\ prior # <<>> => linked[k].matched

\* C6: for a record unmatched after Tier A whose only reference is the
\* /commit/<sha> URL: when the repository does not hold sha the record stays
\* unmatched, with no match_types and no matched_commits; when it does,
\* match_types = [commit_reference], matched_commits = [sha] and
\* evidence.commit_shas = [sha].
C6_CommitReferenceValidated ==
    LinkDone => \A k \in Items :
        (linked[k].references = <<UrlCommitDeadbeef>> /\ ~ByTierA(k)) =>
            IF InRepo(ShaDeadbeef)
            THEN /\ linked[k].matched
                 /\ linked[k].match_types = <<commit_reference>>
                 /\ linked[k].matched_commits = <<ShaDeadbeef>>
                 /\ linked[k].evidence.commit_shas = <<ShaDeadbeef>>
            ELSE /\ ~linked[k].matched
                 /\ linked[k].match_types = <<>>
                 /\ linked[k].matched_commits = <<>>
                 /\ linked[k].evidence.commit_shas = None

\* a finished run whose repository holds the hash such a record refers to
C6_Witness ==
    /\ LinkDone
    /\ InRepo(ShaDeadbeef)
    /\ \E k \in Items :
        /\ linked[k].references = <<UrlCommitDeadbeef>>
        /\ linked[k].match_types = <<commit_reference>>

Patterns42 ==
    << <<"M", "e", "r", "g", "e", " ", "p", "u", "l", "l", " ",
         "r", "e", "q", "u", "e", "s", "t", " ", "#", "4", "2">>,
       <<"p", "u", "l", "l", " ", "r", "e", "q", "u", "e", "s", "t", " ",
         "#", "4", "2">>,
       <<"P", "R", " ", "#", "4", "2">>,
       <<"#", "4", "2">> >>

HitsFor42(n) == grep_commits(repoLog, Patterns42[n], max_pr_hits)

\* the first template with hits, the last one when none has
FirstHit42 ==
    IF \E n \in 1..4 : HitsFor42(n) # <<>>
    THEN CHOOSE n \in 1..4 :
            HitsFor42(n) # <<>> /\ \A m \in 1..(n - 1) : HitsFor42(m) = <<>>
    ELSE 4

\* C7: for the pull-request number 42 in the references of a record Tier A
\* left unmatched, grep_commits is called with 'Merge pull request #42',
\* 'pull request #42', 'PR #42', '#42' in this order and with no template
\* after the first that returns hits; at most max_pr_hits commits are
\* accepted; hits of the last template alone are accepted too; hits add
\* pr_reference and are recorded under evidence.pr_hits["42"].
C7_PrTemplatesInOrder ==
    LinkDone => \A k \in Items :
        (~ByTierA(k)
         /\ extract_strong_signals(linked[k].references).pr_numbers = <<42>>) =>
            LET n    == FirstHit42
                hits == HitsFor42(n)
            IN  /\ GrepArgsOf(k) = SubSeq(Patterns42, 1, n)
                /\ Len(hits) <= max_pr_hits
                /\ IF hits # <<>>
                   THEN /\ pr_reference \in TypesOf(k)
                        /\ DictGet(linked[k].evidence.pr_hits, <<"4", "2">>) = hits
                        /\ Range(hits) \subseteq Range(linked[k].matched_commits)
                        /\ linked[k].matched
                   ELSE /\ pr_reference \notin TypesOf(k)
                        /\ linked[k].evidence.pr_hits = None

\* a finished run where only the last template has hits, more commits match
\* it than max_pr_hits allows, and the record's only reference is the
\* pull-request URL
C7_Witness ==
    /\ LinkDone
    /\ FirstHit42 = 4
    /\ max_pr_hits = 1
    /\ Len(SelectCommits(repoLog, Patterns42[4])) = 2
    /\ \E k \in Items :
        /\ linked[k].references = <<UrlPull42>>
        /\ linked[k].match_types = <<pr_reference>>
        /\ linked[k].matched_commits = <<repoLog[1].hash>>

(***************************************************************************)
(* CVECollector: the source queries                                        *)
(*                                                                         *)
(* An HTTP response is [kind, body]: kind "neterr" (the request raised),   *)
(* "status" (a non-2xx status), "notjson" (the body is no JSON), or "ok".  *)
(* The body of an "ok" response has shape "list" or "dict", the JSON type  *)
(* of its top level; the query of a source that expects a dict raises      *)
(* AttributeError on a list.  An operation that may raise yields           *)
(* [raised, value].                                                        *)
(***************************************************************************)
Raised == [raised |-> TRUE, value |-> <<>>]

Returned(v) == [raised |-> FALSE, value |-> v]

\* _request_json: any exception of the request, of raise_for_status or of
\* resp.json() is raised again as RuntimeError
request_json(resp) ==
    IF resp.kind = "ok" THEN Returned(resp.body) ELSE Raised

\* x or '' / x or None for a string that may be None or empty
Truthy(x) == x # None /\ x # <<>>

circl_tag == <<"c", "i", "r", "c", "l">>

nvd_tag == <<"n", "v", "d">>

nvd_v2_tag == <<"n", "v", "d", "_", "v", "2">>

github_tag == <<"g", "i", "t", "h", "u", "b">>

osv_tag == <<"o", "s", "v">>

\* lines 129-136
CirclRecord(it) ==
    [id         |-> it.id,
     summary    |-> it.summary,
     published  |-> it.Published,
     modified   |-> it.Modified,
     references |-> OrEmpty(it.references),
     source     |-> circl_tag]

\* CVECollector._query_circl
query_circl(resp) ==
    LET data == request_json(resp)
    IN  IF data.raised THEN Raised
        ELSE IF data.value.shape # "list" THEN Returned(<<>>)
        ELSE Returned([k \in 1..Len(data.value.items) |->
                          CirclRecord(data.value.items[k])])

\* lines 223-228: the value of the first description whose lang is 'en'
RECURSIVE EnglishSummary(_)
EnglishSummary(descs) ==
    IF descs = <<>> THEN <<>>
    ELSE IF Head(descs).lang = <<"e", "n">> THEN OrEmpty(Head(descs).value)
    ELSE EnglishSummary(Tail(descs))

\* lines 220-240
NvdV2Record(cve) ==
    [id         |-> cve.id,
     summary    |-> EnglishSummary(OrEmpty(cve.descriptions)),
     published  |-> cve.published,
     modified   |-> cve.lastModified,
     references |-> SelectSeq(OrEmpty(cve.references), Truthy),
     source     |-> nvd_v2_tag]

\* lines 166-186
NvdRecord(it) ==
    [id         |-> it.ID,
     summary    |-> IF it.description_data # <<>>
                    THEN Head(it.description_data) ELSE <<>>,
     published  |-> it.publishedDate,
     modified   |-> it.lastModifiedDate,
     references |-> SelectSeq(it.reference_data, Truthy),
     source     |-> nvd_tag]

\* the answer to the n-th page request: the server's n-th page, an empty
\* page once it has no more
PageOf(pages, n) ==
    IF n <= Len(pages) THEN pages[n]
    ELSE [kind |-> "ok",
          body |-> [shape |-> "dict", items |-> <<>>, totalResults |-> 0]]

\* a loop that a failed request ends like an empty page
NvdPageStep_FailureEndsQuietly(resp, start_index, acc, v2) ==
    LET items == resp.body.items
        recs  == [k \in 1..Len(items) |->
                     IF v2 THEN NvdV2Record(items[k]) ELSE NvdRecord(items[k])]
    IN  [raised      |-> FALSE,
         done        |-> \/ resp.kind # "ok"
                         \/ items = <<>>
                         \/ start_index + Len(items) >= resp.body.totalResults,
         results     |-> acc \o recs,
         start_index |-> start_index + Len(items)]

\* a loop that asks for the same startIndex again
NvdPageStep_SameIndex(resp, start_index, acc, v2) ==
    [raised      |-> FALSE,
     done        |-> resp.kind # "ok" \/ resp.body.items = <<>>,
     results     |-> acc,
     start_index |-> start_index]

\* one pass of the page loop of _query_nvd_v2 (lines 205-246) and of
\* _query_nvd (lines 150-192) on the response resp: whether the request
\* raised, whether the loop is left, and the locals afterwards
NvdPageStep(resp, start_index, acc, v2) ==
    LET data  == request_json(resp)
        items == data.value.items
        recs  == [k \in 1..Len(items) |->
                     IF v2 THEN NvdV2Record(items[k]) ELSE NvdRecord(items[k])]
        total == IF data.value.totalResults # 0
                 THEN data.value.totalResults ELSE Len(items)
    IN  IF data.raised \/ data.value.shape # "dict"
        THEN [raised |-> TRUE, done |-> TRUE, results |-> acc,
              start_index |-> start_index]
        ELSE IF items = <<>>
        THEN [raised |-> FALSE, done |-> TRUE, results |-> acc,
              start_index |-> start_index]
        ELSE [raised      |-> FALSE,
              done        |-> start_index + Len(items) >= total,
              results     |-> acc \o recs,
              start_index |-> start_index + Len(items)]

\* the page loop from the n-th request on: [raised, value, starts], starts
\* being the startIndex of every request made; an exception leaves the loop
\* and the function, and the records of the earlier pages with it
RECURSIVE NvdLoop(_, _, _, _, _)
NvdLoop(pages, n, start_index, acc, v2) ==
    LET st == NvdPageStep(PageOf(pages, n), start_index, acc, v2)
    IN  IF st.raised
        THEN [raised |-> TRUE, value |-> <<>>, starts |-> <<start_index>>]
        ELSE IF st.done
        THEN [raised |-> FALSE, value |-> st.results,
              starts |-> <<start_index>>]
        ELSE LET rest == NvdLoop(pages, n + 1, st.start_index, st.results, v2)
             IN  [rest EXCEPT !.starts = <<start_index>> \o @]

\* CVECollector._query_nvd_v2
query_nvd_v2(pages) == NvdLoop(pages, 1, 0, <<>>, TRUE)

\* CVECollector._query_nvd
query_nvd(pages) == NvdLoop(pages, 1, 0, <<>>, FALSE)

\* lines 272-291
GithubRecord(it) ==
    [id         |-> IF Truthy(it.cve_id) THEN it.cve_id ELSE it.ghsa_id,
     summary    |-> OrEmpty(it.summary),
     published  |-> it.published_at,
     modified   |-> it.updated_at,
     references |-> (IF Truthy(it.html_url) THEN <<it.html_url>> ELSE <<>>)
                    \o (IF Truthy(it.url) THEN <<it.url>> ELSE <<>>),
     source     |-> github_tag]

\* CVECollector._query_github_advisories; without a token no request is made
query_github_advisories(has_token, resp) ==
    IF ~has_token THEN Returned(<<>>)
    ELSE LET data == request_json(resp)
         IN  IF data.raised THEN Raised
             ELSE IF data.value.shape # "list" THEN Returned(<<>>)
             ELSE Returned([k \in 1..Len(data.value.items) |->
                               GithubRecord(data.value.items[k])])

\* lines 312-317: the first alias that starts with 'CVE-' when upper-cased
RECURSIVE OsvCveAlias(_)
OsvCveAlias(aliases) ==
    IF aliases = <<>> THEN None
    ELSE IF Truthy(Head(aliases))
            /\ StartsWith(Upper(Head(aliases)), <<"C", "V", "E", "-">>)
    THEN Upper(Head(aliases))
    ELSE OsvCveAlias(Tail(aliases))

\* lines 310-334
OsvRecord(v) ==
    LET cve_id == OsvCveAlias(OrEmpty(v.aliases))
    IN  [id         |-> IF cve_id # None THEN cve_id ELSE v.id,
         summary    |-> IF Truthy(v.summary) THEN v.summary
                        ELSE IF Truthy(v.details) THEN v.details ELSE <<>>,
         published  |-> IF Truthy(v.published) THEN v.published
                        ELSE IF Truthy(v.modified) THEN v.modified ELSE None,
         modified   |-> v.modified,
         references |-> SelectSeq(OrEmpty(v.references), Truthy),
         source     |-> osv_tag]

\* CVECollector._query_osv
query_osv(resp) ==
    LET data == request_json(resp)
    IN  IF data.raised \/ data.value.shape # "dict" THEN Raised
        ELSE Returned([k \in 1..Len(data.value.vulns) |->
                          OsvRecord(data.value.vulns[k])])

\* lines 393-399: the package names OSV is asked for
osv_names(kw) ==
    Dedupe((IF kw # <<>> THEN <<Lower(kw)>> ELSE <<>>)
           \o << <<"p", "i", "l", "l", "o", "w">> >>)

(***************************************************************************)
(* CVECollector.collect: merge, sort, truncate                             *)
(***************************************************************************)
\* s.split('|')
RECURSIVE Split(_)
Split(s) ==
    IF \E i \in 1..Len(s) : s[i] = "|"
    THEN LET i == CHOOSE j \in 1..Len(s) :
                     s[j] = "|" /\ \A m \in 1..(j - 1) : s[m] # "|"
         IN  <<SubSeq(s, 1, i - 1)>> \o Split(SubSeq(s, i + 1, Len(s)))
    ELSE <<s>>

\* '|'.join(parts)
RECURSIVE Join(_)
Join(parts) ==
    IF parts = <<>> THEN <<>>
    ELSE IF Len(parts) = 1 THEN Head(parts)
    ELSE Head(parts) \o <<"|">> \o Join(Tail(parts))

\* a merge in which a later record overwrites a populated field
MergeField_LastWins(current, incoming) ==
    IF Truthy(incoming) THEN incoming ELSE current

\* lines 433-438: fill a field only while it is empty
MergeField(current, incoming) ==
    IF ~Truthy(current) /\ Truthy(incoming) THEN incoming ELSE current

\* a merge that appends the tag of the record to the tags of the entry
MergeSource_Appended(base_source, item_source) ==
    IF Truthy(base_source) THEN base_source \o <<"|">> \o OrEmpty(item_source)
    ELSE OrEmpty(item_source)

\* lines 444-446
MergeSource(base_source, item_source) ==
    LET srcs == (IF Truthy(base_source) THEN Range(Split(base_source)) ELSE {})
                \cup Range(Split(OrEmpty(item_source)))
    IN  Join(Sorted({x \in srcs : x # <<>>}))

\* lines 432-446: item merged into the entry base; list(refs) has the order
\* of a set, which unordered marks
MergeEntry(base, item) ==
    [id         |-> base.id,
     summary    |-> MergeField(base.summary, item.summary),
     published  |-> MergeField(base.published, item.published),
     modified   |-> MergeField(base.modified, item.modified),
     references |-> Sorted(Range(OrEmpty(base.references))
                           \cup Range(OrEmpty(item.references))),
     source     |-> MergeSource(base.source, item.source),
     unordered  |-> TRUE]

\* lines 428-429: the first record of an id seeds its entry
SeedEntry(item) ==
    [id         |-> item.id,
     summary    |-> item.summary,
     published  |-> item.published,
     modified   |-> item.modified,
     references |-> item.references,
     source     |-> item.source,
     unordered  |-> FALSE]

\* line 425: the key of the merge is the id as the source gave it
MergeKey(id) == id

\* a non-empty JSON array where a source's payload should hold a string:
\* truthy, and unhashable as a dict key
JsonArray == <<"json-array">>

Hashable(x) == x # JsonArray

\* line 428: cid not in merged raises TypeError for an unhashable cid
MergeRaises(items) ==
    \E k \in 1..Len(items) : Truthy(items[k].id) /\ ~Hashable(items[k].id)

\* one iteration of the loop of lines 424-446; entries is the merged dict as
\* the sequence of its values in insertion order
MergeOne(entries, item) ==
    IF ~Truthy(item.id) THEN entries
    ELSE IF \E n \in 1..Len(entries) : MergeKey(entries[n].id) = MergeKey(item.id)
    THEN LET n == CHOOSE m \in 1..Len(entries) :
                     MergeKey(entries[m].id) = MergeKey(item.id)
         IN  [entries EXCEPT ![n] = MergeEntry(entries[n], item)]
    ELSE Append(entries, SeedEntry(item))

RECURSIVE MergeAll(_, _)
MergeAll(entries, items) ==
    IF items = <<>> THEN entries
    ELSE MergeAll(MergeOne(entries, Head(items)), Tail(items))

Perms(set) ==
    {p \in [1..Cardinality(set) -> set] : \A x \in set : \E i \in DOMAIN p : p[i] = x}

\* the lists list(refs) may be
RefOrders(entry) ==
    IF entry.unordered THEN Perms(Range(entry.references))
    ELSE {entry.references}

Published(entry) == OrEmpty(entry.published)

\* the record of an entry as it is returned
OutRecord(entry, refs) ==
    [id         |-> entry.id,
     summary    |-> entry.summary,
     published  |-> entry.published,
     modified   |-> entry.modified,
     references |-> refs,
     source     |-> entry.source]

\* x placed into a list sorted by published, descending, behind the records
\* that do not sort after it
RECURSIVE InsertDesc(_, _)
InsertDesc(sorted, x) ==
    IF sorted = <<>> THEN <<x>>
    ELSE IF StrLess(Published(Head(sorted)), Published(x))
    THEN <<x>> \o sorted
    ELSE <<Head(sorted)>> \o InsertDesc(Tail(sorted), x)

\* line 451: final.sort(key=published or '', reverse=True), a stable sort
RECURSIVE SortByPublished(_, _)
SortByPublished(sorted, items) ==
    IF items = <<>> THEN sorted
    ELSE SortByPublished(InsertDesc(sorted, Head(items)), Tail(items))

\* lines 453-454: `if max_items:` holds for neither None nor 0
Truncate(lst, n) ==
    IF n # NoLimit /\ n # 0 THEN Take(lst, n) ELSE lst

(***************************************************************************)
(* What the vulnerability databases may answer                             *)
(***************************************************************************)
SummaryX == <<"X">>

SummaryY == <<"Y">>

Date2019 == <<"2", "0", "1", "9">>

Date2020 == <<"2", "0", "2", "0">>

Date2021 == <<"2", "0", "2", "1">>

LowerCve20201234 == Lower(Cve20201234)

Failure(kind) ==
    [kind |-> kind, body |-> [shape |-> "dict", items |-> <<>>]]

CirclItem(id, summary, published, refs) ==
    [id |-> id, summary |-> summary, Published |-> published,
     Modified |-> None, references |-> refs]

CirclBody(shape, items) ==
    [kind |-> "ok", body |-> [shape |-> shape, items |-> items]]

CirclResponses ==
    {CirclBody("list",
               <<CirclItem(Cve20201234, <<>>, None, <<UrlAdvisory, UrlPull42>>),
                 CirclItem(Cve20219999, SummaryX, Date2020,
                           <<UrlAdvisory, UrlAdvisory>>)>>),
     CirclBody("list",
               <<CirclItem(Cve20201234, SummaryY, Date2019, None),
                 CirclItem(Cve20201234, SummaryX, Date2021, <<UrlPull42>>)>>),
     CirclBody("list", <<CirclItem(JsonArray, SummaryX, Date2020, None)>>),
     CirclBody("dict", <<>>),
     Failure("neterr")}

NvdPage(items, total) ==
    [kind |-> "ok",
     body |-> [shape |-> "dict", items |-> items, totalResults |-> total]]

NvdV2Cve(id, descs, published, refs) ==
    [id |-> id, descriptions |-> descs, published |-> published,
     lastModified |-> Date2021, references |-> refs]

French(value) == [lang |-> <<"f", "r">>, value |-> value]

English(value) == [lang |-> <<"e", "n">>, value |-> value]

NvdV2Pages ==
    {<<NvdPage(<<NvdV2Cve(Cve20201234, <<French(SummaryY), English(SummaryX)>>,
                          Date2021, <<UrlPull42, None, UrlCommitDeadbeef>>)>>,
               2),
       NvdPage(<<NvdV2Cve(Cve20219999, None, Date2019, None)>>, 2)>>,
     <<NvdPage(<<NvdV2Cve(Cve20201234,
                          <<English(SummaryY), French(SummaryX)>>, Date2020,
                          <<UrlAdvisory>>)>>,
               2),
       Failure("status")>>,
     <<[kind |-> "ok",
        body |-> [shape |-> "list", items |-> <<>>, totalResults |-> 0]]>>}

NvdItem(id, descs, published, refs) ==
    [ID |-> id, description_data |-> descs, publishedDate |-> published,
     lastModifiedDate |-> None, reference_data |-> refs]

NvdPages ==
    {<<NvdPage(<<NvdItem(Cve20201234, <<SummaryY, SummaryX>>, Date2020,
                         <<UrlCommitDeadbeef>>),
                 NvdItem(None, <<>>, Date2021, <<>>)>>,
               0)>>,
     <<Failure("notjson")>>}

GithubAdvisory(cve_id, summary, published, url) ==
    [cve_id |-> cve_id, ghsa_id |-> GhsaId, summary |-> summary,
     published_at |-> published, updated_at |-> None,
     html_url |-> url, url |-> None]

GithubResponses ==
    {CirclBody("list",
               <<GithubAdvisory(LowerCve20201234, SummaryY, Date2019, UrlPull42),
                 GithubAdvisory(None, None, Date2021, None)>>),
     Failure("status")}

OsvVuln(aliases, id, summary, details, published, refs) ==
    [aliases |-> aliases, id |-> id, summary |-> summary, details |-> details,
     published |-> published, modified |-> Date2020, references |-> refs]

OsvBody(shape, vulns) ==
    [kind |-> "ok", body |-> [shape |-> shape, vulns |-> vulns]]

OsvResponses ==
    {OsvBody("dict",
             <<OsvVuln(<<None, LowerCve20201234>>, GhsaId, None, SummaryY, None,
                       <<UrlAdvisory>>),
               OsvVuln(None, None, SummaryX, None, Date2021, None)>>),
     OsvBody("list", <<>>),
     [kind |-> "notjson", body |-> [shape |-> "dict", vulns |-> <<>>]]}

\* the name that enables _query_nvd, whose records carry the tag 'nvd'
nvd_v1_name == <<"n", "v", "d", "_", "v", "1">>

\* line 33, split at its commas
DEFAULT_SOURCES == <<osv_tag, nvd_v2_tag, nvd_v1_name, circl_tag, github_tag>>

\* CVECollector._normalize_sources on a list of strings
normalize_sources(sources) ==
    LET kept == SelectSeq(sources, LAMBDA x : Strip(x) # <<>>)
    IN  [k \in 1..Len(kept) |-> Lower(Strip(kept[k]))]

\* line 50: an empty enabled_sources argument stands for the default
ConstructedSources(arg) ==
    normalize_sources(IF arg = <<>> THEN DEFAULT_SOURCES ELSE arg)

\* the positions of collect at which a source is asked, in the order of the
\* if-statements of lines 359-392, and the name each one looks for
SourceOrder == <<"circl", "nvd_v2", "nvd_v1", "github", "osv">>

SourceNames == <<circl_tag, nvd_v2_tag, nvd_v1_name, github_tag, osv_tag>>

Reverse(seq) == [k \in 1..Len(seq) |-> seq[Len(seq) + 1 - k]]

\* names as a configuration may spell them
SpelledNames ==
    <<circl_tag, <<" ">> \o Upper(nvd_v2_tag), nvd_v1_name,
      <<"G", "i", "t", "H", "u", "b">>, osv_tag \o <<" ">> >>

\* the enabled_sources arguments explored: no list, a blank name, and every
\* selection of the names in the order of the code and in the opposite order
SourceArgs ==
    LET picks == {PickFrom(SpelledNames, S, 1) : S \in SUBSET (1..5)}
    IN  picks \cup {Reverse(x) : x \in picks} \cup {<< <<" ">> >>}

Keywords == {<<"P", "i", "l", "l", "o", "w">>, <<"P", "I", "L">>}

MaxItemsArgs == {NoLimit, 0, 1}

(***************************************************************************)
(* CVECollector.collect as a state machine: one step per source, in the    *)
(* order of the code, then the merge, then sort and truncation.  queries   *)
(* logs what every source that was asked answered.                         *)
(***************************************************************************)
CollectStartState ==
    /\ cpc = "start"
    /\ \E arg \in SourceArgs : enabled = ConstructedSources(arg)
    /\ keyword = <<>>
    /\ max_items = NoLimit
    /\ queries = <<>>
    /\ results = <<>>
    /\ merged = <<>>
    /\ final = <<>>

CollectInit == LinkStart /\ CollectStartState /\ ApiIdle /\ PagesIdle

\* try: results.extend(query) except Exception: only a message (lines
\* 360-365, 368-373, 376-381, 384-389, 402-411)
Caught(outcome) == IF outcome.raised THEN <<>> ELSE outcome.value

\* 'name' in self.enabled_sources, for the name position src looks for
Enabled(src) == SourceNames[IndexIn(SourceOrder, src)] \in Range(enabled)

\* a collect that asks the sources in the order enabled_sources lists them
After_AsListed(pos) ==
    LET known  == SelectSeq(Dedupe(enabled), LAMBDA x : x \in Range(SourceNames))
        listed == [k \in 1..Len(known) |-> SourceOrder[IndexIn(SourceNames, known[k])]]
        others == SelectSeq(SourceOrder, LAMBDA x : x \notin Range(listed))
        order  == <<"start">> \o listed \o others \o <<"merge">>
    IN  order[IndexIn(order, pos) + 1]

\* the position that follows pos in collect: the if-statements of lines
\* 359-392 one after another, then the merge
After(pos) ==
    LET order == <<"start">> \o SourceOrder \o <<"merge">>
    IN  order[IndexIn(order, pos) + 1]

\* the call of collect
CollectStart ==
    /\ cpc = "start"
    /\ \E kw \in Keywords, mi \in MaxItemsArgs :
        /\ keyword' = kw
        /\ max_items' = mi
    /\ cpc' = After("start")
    /\ UNCHANGED <<enabled, queries, results, merged, final>>

\* lines 359-365
QueryCircl ==
    /\ cpc = "circl"
    /\ IF Enabled("circl")
       THEN \E resp \in CirclResponses :
               /\ results' = results \o Caught(query_circl(resp))
               /\ queries' = Append(queries, [src |-> "circl", token |-> FALSE,
                                              resps |-> <<resp>>])
       ELSE UNCHANGED <<queries, results>>
    /\ cpc' = After("circl")
    /\ UNCHANGED <<enabled, keyword, max_items, merged, final>>

\* lines 367-373
QueryNvdV2 ==
    /\ cpc = "nvd_v2"
    /\ IF Enabled("nvd_v2")
       THEN \E pages \in NvdV2Pages :
               /\ results' = results \o Caught(query_nvd_v2(pages))
               /\ queries' = Append(queries,
                                    [src |-> "nvd_v2", token |-> FALSE,
                                     resps |-> pages,
                                     starts |-> query_nvd_v2(pages).starts])
       ELSE UNCHANGED <<queries, results>>
    /\ cpc' = After("nvd_v2")
    /\ UNCHANGED <<enabled, keyword, max_items, merged, final>>

\* lines 375-381
QueryNvdV1 ==
    /\ cpc = "nvd_v1"
    /\ IF Enabled("nvd_v1")
       THEN \E pages \in NvdPages :
               /\ results' = results \o Caught(query_nvd(pages))
               /\ queries' = Append(queries,
                                    [src |-> "nvd_v1", token |-> FALSE,
                                     resps |-> pages,
                                     starts |-> query_nvd(pages).starts])
       ELSE UNCHANGED <<queries, results>>
    /\ cpc' = After("nvd_v1")
    /\ UNCHANGED <<enabled, keyword, max_items, merged, final>>

\* lines 383-389; GITHUB_TOKEN may be unset
QueryGithub ==
    /\ cpc = "github"
    /\ IF Enabled("github")
       THEN \E has_token \in BOOLEAN, resp \in GithubResponses :
               /\ results' = results
                             \o Caught(query_github_advisories(has_token, resp))
               /\ queries' = Append(queries, [src |-> "github",
                                              token |-> has_token,
                                              resps |-> <<resp>>])
       ELSE UNCHANGED <<queries, results>>
    /\ cpc' = After("github")
    /\ UNCHANGED <<enabled, keyword, max_items, merged, final>>

\* the loop of lines 401-411 over the names from the n-th on
RECURSIVE OsvLoop(_, _)
OsvLoop(resps, n) ==
    IF n > Len(resps) THEN <<>>
    ELSE Caught(query_osv(resps[n])) \o OsvLoop(resps, n + 1)

\* lines 392-411: one request per package name, each in its own try
QueryOsv ==
    /\ cpc = "osv"
    /\ IF Enabled("osv")
       THEN \E resps \in [1..Len(osv_names(keyword)) -> OsvResponses] :
               /\ results' = results \o OsvLoop(resps, 1)
               /\ queries' = Append(queries, [src |-> "osv", token |-> FALSE,
                                              resps |-> resps])
       ELSE UNCHANGED <<queries, results>>
    /\ cpc' = After("osv")
    /\ UNCHANGED <<enabled, keyword, max_items, merged, final>>

\* lines 423-446; an exception of the loop leaves collect
Merge ==
    /\ cpc = "merge"
    /\ IF MergeRaises(results)
       THEN cpc' = "raised" /\ UNCHANGED merged
       ELSE cpc' = "sort" /\ merged' = MergeAll(<<>>, results)
    /\ UNCHANGED <<enabled, keyword, max_items, queries, results, final>>

\* the lists list(merged.values()) may be, list(refs) having any order
RECURSIVE OutLists(_)
OutLists(entries) ==
    IF entries = <<>> THEN {<<>>}
    ELSE {<<OutRecord(Head(entries), refs)>> \o rest :
             refs \in RefOrders(Head(entries)), rest \in OutLists(Tail(entries))}

\* lines 448-469: sort, truncate, return
Finish ==
    /\ cpc = "sort"
    /\ \E out \in OutLists(merged) :
        final' = Truncate(SortByPublished(<<>>, out), max_items)
    /\ cpc' = "done"
    /\ UNCHANGED <<enabled, keyword, max_items, queries, results, merged>>

CollectNext ==
    \/ CollectStart /\ UNCHANGED <<linkVars, apiVars, pageVars>>
    \/ QueryCircl /\ UNCHANGED <<linkVars, apiVars, pageVars>>
    \/ QueryNvdV2 /\ UNCHANGED <<linkVars, apiVars, pageVars>>
    \/ QueryNvdV1 /\ UNCHANGED <<linkVars, apiVars, pageVars>>
    \/ QueryGithub /\ UNCHANGED <<linkVars, apiVars, pageVars>>
    \/ QueryOsv /\ UNCHANGED <<linkVars, apiVars, pageVars>>
    \/ Merge /\ UNCHANGED <<linkVars, apiVars, pageVars>>
    \/ Finish /\ UNCHANGED <<linkVars, apiVars, pageVars>>

SpecCollect == CollectInit /\ [][CollectNext]_vars

(***************************************************************************)
(* Properties of the collector                                             *)
(***************************************************************************)
CollectDone == cpc = "done"

\* the source records that went into the entry of id, in arrival order
Contributing(id) == SelectSeq(results, LAMBDA r : r.id = id)

\* the identity of a record: its normalized id, its raw id when the
\* normalization knows no CVE number in it
Identity(id) ==
    LET n == normalize_cve_id(id) IN IF n # None THEN n ELSE id

\* C3: in the list collect returns an identifier appears at most once,
\* identity being the normalized id: records whose raw ids normalize to the
\* same identifier are merged into one output record
C3_NormalizedIdsUnique ==
    CollectDone =>
        \A i, j \in 1..Len(final) :
            i # j => Identity(final[i].id) # Identity(final[j].id)

\* the first non-empty value of a list of values; the first value when all
\* are empty
RECURSIVE FirstNonEmpty(_)
FirstNonEmpty(values) ==
    IF Len(values) = 1 \/ Truthy(Head(values)) THEN Head(values)
    ELSE FirstNonEmpty(Tail(values))

FirstWins(e) ==
    LET recs == Contributing(e.id)
    IN  /\ e.summary = FirstNonEmpty([k \in 1..Len(recs) |-> recs[k].summary])
        /\ e.published
               = FirstNonEmpty([k \in 1..Len(recs) |-> recs[k].published])
        /\ e.modified
               = FirstNonEmpty([k \in 1..Len(recs) |-> recs[k].modified])

MergedAgain(e) ==
    \A k \in 1..Len(results) :
        results[k].id = e.id =>
            LET again == MergeEntry(e, results[k])
            IN  /\ again.summary = e.summary
                /\ again.published = e.published
                /\ again.modified = e.modified

\* C8: summary, published and modified of a merged entry are each the first
\* non-empty value among the records of its id in arrival order (a later
\* record fills a field only while it is empty, never overwrites one), and
\* merging any of these records once more leaves the three fields as they are
C8_FirstNonEmptyWins ==
    /\ cpc \in {"sort", "done"} =>
           \A k \in 1..Len(merged) : FirstWins(merged[k]) /\ MergedAgain(merged[k])
    /\ CollectDone => \A k \in 1..Len(final) : FirstWins(final[k])

\* an id reported three times, with summaries '', 'X' and 'Y' in this order,
\* is returned with summary 'X'
C8_Witness ==
    /\ CollectDone
    /\ \E k \in 1..Len(final) :
        LET recs == Contributing(final[k].id)
        IN  /\ Len(recs) >= 3
            /\ ~Truthy(recs[1].summary)
            /\ recs[2].summary = SummaryX
            /\ recs[3].summary = SummaryY
            /\ final[k].summary = SummaryX
            /\ recs[1].published = None
            /\ final[k].published = recs[2].published

\* C9: references of every returned record is the union of the references
\* of the source records of its id, each URL exactly once, whatever the
\* order of arrival, also for an id reported by one record that repeats a URL
C9_ReferencesAreSetUnion ==
    CollectDone =>
        \A k \in 1..Len(final) :
            LET recs == Contributing(final[k].id)
            IN  /\ IsInjective(final[k].references)
                /\ Range(final[k].references)
                       = UNION {Range(recs[n].references) : n \in 1..Len(recs)}

\* what the query logged as q returned, nothing when it failed
Contribution(q) ==
    CASE q.src = "circl" ->
             LET out == query_circl(q.resps[1])
             IN  IF out.raised THEN <<>> ELSE out.value
      [] q.src = "nvd_v2" ->
             LET out == query_nvd_v2(q.resps)
             IN  IF out.raised THEN <<>> ELSE out.value
      [] q.src = "nvd_v1" ->
             LET out == query_nvd(q.resps)
             IN  IF out.raised THEN <<>> ELSE out.value
      [] q.src = "github" ->
             LET out == query_github_advisories(q.token, q.resps[1])
             IN  IF out.raised THEN <<>> ELSE out.value
      [] q.src = "osv" ->
             Concat([n \in 1..Len(q.resps) |->
                        LET out == query_osv(q.resps[n])
                        IN  IF out.raised THEN <<>> ELSE out.value])

\* C10: collect returns normally whatever the sources answer (network
\* error, non-2xx status, malformed payload); a failing query contributes no
\* record and the records of the other queries are what they are without it
C10_SourceFailuresContained ==
    /\ cpc # "raised"
    /\ cpc \in {"merge", "sort", "done"} =>
           results = Concat([k \in 1..Len(queries) |-> Contribution(queries[k])])

\* the sources asked so far, in the order they were asked
Asked == [k \in 1..Len(queries) |-> queries[k].src]

\* the positions collect has left behind
Passed ==
    IF cpc = "start" THEN <<>>
    ELSE IF cpc \in Range(SourceOrder)
    THEN SubSeq(SourceOrder, 1, IndexIn(SourceOrder, cpc) - 1)
    ELSE SourceOrder

\* the tag on the records of each position of SourceOrder
SourceTags == <<circl_tag, nvd_v2_tag, nvd_tag, github_tag, osv_tag>>

\* the records of id in the order of source priority, those of one source
\* in the order it gave them
ByPriority(id) ==
    Concat([n \in 1..Len(SourceTags) |->
               SelectSeq(results,
                         LAMBDA r : r.id = id /\ r.source = SourceTags[n])])

C11_State ==
    /\ Asked = SelectSeq(Passed, Enabled)
    /\ results = Concat([k \in 1..Len(queries) |-> Contribution(queries[k])])
    /\ cpc \in {"sort", "done"} =>
           \A k \in 1..Len(merged) :
               LET recs == ByPriority(merged[k].id)
               IN  /\ merged[k].summary
                          = FirstNonEmpty([n \in 1..Len(recs) |-> recs[n].summary])
                   /\ merged[k].published
                          = FirstNonEmpty([n \in 1..Len(recs) |-> recs[n].published])
                   /\ merged[k].modified
                          = FirstNonEmpty([n \in 1..Len(recs) |-> recs[n].modified])

C11_Step ==
    /\ Len(queries') <= Len(queries) + 1
    /\ SubSeq(queries', 1, Len(queries)) = queries
    /\ SubSeq(results', 1, Len(results)) = results
    /\ cpc \in {"merge", "sort"} => queries' = queries /\ results' = results

\* C11: collect asks the enabled sources one after another in the order
\* circl, nvd_v2, nvd_v1, github, osv, whatever the order of the names in
\* enabled_sources; each answer is appended to results before the next
\* source is asked and before the merge, so that summary, published and
\* modified of a merged entry are the first non-empty values in this source
\* priority
C11_FixedSourceOrder == [](C11_State) /\ [][C11_Step]_vars

\* a collection with nvd_v1 listed before nvd_v2 in which both report
\* CVE-2020-1234, nvd_v2 with summary 'X' and nvd_v1 with summary 'Y', and
\* 'X' is returned
C11_Witness ==
    /\ CollectDone
    /\ enabled = <<nvd_v1_name, nvd_v2_tag>>
    /\ Asked = <<"nvd_v2", "nvd_v1">>
    /\ \E k \in 1..Len(final) :
        /\ final[k].id = Cve20201234
        /\ ByPriority(Cve20201234)[1].source = nvd_v2_tag
        /\ \E n \in 1..Len(results) :
               results[n].source = nvd_tag /\ results[n].summary = SummaryY
                                           /\ results[n].id = Cve20201234
        /\ final[k].summary = SummaryX

\* the records of a list that carry no id
Idless(lst) == SelectSeq(lst, LAMBDA r : ~Truthy(r.id))

\* C12: collect returns one record per distinct id and one per source record
\* without an id: a record that lacks an id is passed through unmerged and
\* appears in the returned list as a record of its own
C12_IdlessPassedThrough ==
    CollectDone /\ max_items = NoLimit =>
        /\ Len(Idless(final)) = Len(Idless(results))
        /\ Len(final) = Cardinality({results[k].id : k \in 1..Len(results)}
                                        \ {None, <<>>})
                            + Len(Idless(results))

(***************************************************************************)
(* GitCrawler.crawl: the parser of the git log stream                      *)
(***************************************************************************)
Tab == "\t"

\* field_sep, the unit separator "\x1f" (line 123)
FieldSep == "US"

DigitSeq == <<"0", "1", "2", "3", "4", "5", "6", "7", "8", "9">>

\* str.split(sep) for a separator of one character
RECURSIVE SplitOn(_, _)
SplitOn(s, sep) ==
    IF \E i \in 1..Len(s) : s[i] = sep
    THEN LET i == CHOOSE j \in 1..Len(s) :
                     s[j] = sep /\ \A m \in 1..(j - 1) : s[m] # sep
         IN  <<SubSeq(s, 1, i - 1)>> \o SplitOn(SubSeq(s, i + 1, Len(s)), sep)
    ELSE <<s>>

\* sep.join(parts)
RECURSIVE JoinWith(_, _)
JoinWith(parts, sep) ==
    IF parts = <<>> THEN <<>>
    ELSE IF Len(parts) = 1 THEN Head(parts)
    ELSE Head(parts) \o <<sep>> \o JoinWith(Tail(parts), sep)

\* str.strip() for blanks and tabs
RECURSIVE StripWs(_)
StripWs(s) ==
    IF s # <<>> /\ Head(s) \in {" ", Tab} THEN StripWs(Tail(s))
    ELSE IF s # <<>> /\ s[Len(s)] \in {" ", Tab}
    THEN StripWs(SubSeq(s, 1, Len(s) - 1))
    ELSE s

\* str.isdigit()
IsDigit(s) == s # <<>> /\ \A k \in 1..Len(s) : s[k] \in Digits

\* int(s) for a string of digits
RECURSIVE ParseInt(_)
ParseInt(s) ==
    IF s = <<>> THEN 0
    ELSE 10 * ParseInt(SubSeq(s, 1, Len(s) - 1))
         + (IndexIn(DigitSeq, s[Len(s)]) - 1)

\* lines 180-191: the commit a header line opens
NewCommit(parts) ==
    [hash          |-> parts[1],
     author_name   |-> parts[2],
     author_email  |-> parts[3],
     date          |-> parts[4],
     subject       |-> parts[5],
     files         |-> <<>>,
     files_changed |-> 0,
     insertions    |-> 0,
     deletions     |-> 0]

\* a parser that counts a file only when its insertions are a number
AddNumstat_SkipsBinary(current, parts) ==
    LET ins_s == parts[1]
        del_s == parts[2]
        path  == StripWs(JoinWith(SubSeq(parts, 3, Len(parts)), Tab))
    IN  IF ~IsDigit(ins_s) THEN current
        ELSE [current EXCEPT
                !.files_changed = @ + 1,
                !.files         = IF path # <<>> THEN Append(@, path) ELSE @,
                !.insertions    = @ + ParseInt(ins_s),
                !.deletions     = IF IsDigit(del_s) THEN @ + ParseInt(del_s) ELSE @]

\* lines 198-209: a numstat line counted into the current commit
AddNumstat(current, parts) ==
    LET ins_s == parts[1]
        del_s == parts[2]
        path  == StripWs(JoinWith(SubSeq(parts, 3, Len(parts)), Tab))
    IN  [current EXCEPT
            !.files_changed = @ + 1,
            !.files         = IF path # <<>> THEN Append(@, path) ELSE @,
            !.insertions    = IF IsDigit(ins_s) THEN @ + ParseInt(ins_s) ELSE @,
            !.deletions     = IF IsDigit(del_s) THEN @ + ParseInt(del_s) ELSE @]

\* finalize_current (lines 162-167); st holds commits and current, current
\* being <<>> for None and <<c>> for the commit c
Finalized(st) == st.commits \o st.current

\* one iteration of the loop of lines 169-209
ParseLine(st, line) ==
    IF StripWs(line) = <<>> THEN st
    ELSE IF FieldSep \in Range(line)
    THEN LET parts == SplitOn(line, FieldSep)
         IN  IF Len(parts) < 5 THEN st
             ELSE [commits |-> Finalized(st), current |-> <<NewCommit(parts)>>]
    ELSE IF st.current = <<>> THEN st
    ELSE LET parts == SplitOn(line, Tab)
         IN  IF Len(parts) < 3 THEN st
             ELSE [st EXCEPT !.current = <<AddNumstat(st.current[1], parts)>>]

RECURSIVE ParseLines(_, _)
ParseLines(st, lines) ==
    IF lines = <<>> THEN st
    ELSE ParseLines(ParseLine(st, Head(lines)), Tail(lines))

\* lines 153-211: the commits parsed from the lines of git's output
ParseLog(lines) ==
    Finalized(ParseLines([commits |-> <<>>, current |-> <<>>], lines))

(***************************************************************************)
(* GitCrawler.commit_exists in an environment                              *)
(***************************************************************************)
\* _run_git (lines 36-48) for cat-file -e <sha>^{commit}: subprocess.run
\* raises FileNotFoundError when the git executable does not exist, and
\* returns git's exit status otherwise
run_git_cat_file(installed, path, log, sha) ==
    IF ~installed THEN Raised
    ELSE IF path # "git" THEN Returned(128)
    ELSE IF GitResolves(log, sha) THEN Returned(0)
    ELSE Returned(128)

\* commit_exists (lines 50-55) on a machine where git is installed or not,
\* for a path that is no directory, no git repository, or a repository
\* holding log
commit_exists_at(installed, path, log, sha) ==
    IF sha = <<>> THEN Returned(FALSE)
    ELSE LET proc == run_git_cat_file(installed, path, log, sha)
         IN  IF proc.raised THEN Raised ELSE Returned(proc.value = 0)

(***************************************************************************)
(* Single calls of the library: normalize_cve_id, commit_exists and the    *)
(* parser of crawl, each on an input of its own                            *)
(***************************************************************************)
MaxLines == 3

Year2020 == <<"2", "0", "2", "0">>

\* the strings normalize_cve_id is called on: CVE numbers written with and
\* without their hyphens, in either case, alone and inside a text, with
\* numbers of 3, 4 and 8 digits; an id that is no CVE; the empty string; None
RawIds ==
    {lead \o pre \o s1 \o Year2020 \o s2 \o num :
        lead \in {<<>>, <<" ">>, <<"f", "i", "x", " ">>},
        pre \in {<<"C", "V", "E">>, <<"c", "v", "e">>},
        s1 \in {<<"-">>, <<>>, <<" ">>},
        s2 \in {<<"-">>, <<>>, <<" ">>},
        num \in {<<"1", "2", "3", "4">>, <<"1", "2", "3">>,
                 <<"1", "2", "3", "4", "5", "6", "7", "8">>}}
    \cup {GhsaId, <<>>, None, <<"P", "i", "l", "l", "o", "w">>}

\* an id written without any hyphen, and one written with blanks
CveUnhyphenated == <<"c", "v", "e">> \o Year2020 \o <<"1", "2", "3", "4">>

CveBlanks == <<"C", "V", "E", " ">> \o Year2020 \o <<" ", "1", "2", "3", "4">>

\* a header line of git log --pretty=format:%H<US>%an<US>%ae<US>%ad<US>%s
HeaderLine(hash, subject) ==
    JoinWith(<<hash, <<"A">>, <<"a", "@", "b">>, Year2020, subject>>, FieldSep)

FooPy == <<"f", "o", "o", ".", "p", "y">>

BinDat == <<"b", "i", "n", ".", "d", "a", "t">>

\* '3<TAB>1<TAB>foo.py'
LineFoo == <<"3", Tab, "1", Tab>> \o FooPy

\* '-<TAB>-<TAB>bin.dat'
LineBin == <<"-", Tab, "-", Tab>> \o BinDat

\* the lines a stream may hold: two headers, a text file, a binary file, a
\* path that holds a tab, a blank line, a line of two fields, a header of
\* two fields, a line without a path
LogLines ==
    {HeaderLine(ShaAbc123, SubjectFix9999),
     HeaderLine(ShaFeed, SubjectBump42),
     LineFoo,
     LineBin,
     <<"1", "0", Tab, "0", Tab, "a", Tab, "b">>,
     <<" ">>,
     <<"x", Tab, "y">>,
     <<"a", FieldSep, "b">>,
     <<"1", "2", Tab, "7", Tab, " ">>}

LogStreams == SeqsUpTo(LogLines, MaxLines)

\* the shas commit_exists is asked for: none, a full hash, an abbreviated
\* one, one that is no hash
ShaArgs == {<<>>, ShaDeadbeef, SubSeq(ShaAbcd111, 1, 7), <<"z", "z", "z">>}

\* a CVE number that continues Cve20201234 by one digit
Cve202012345 == Cve20201234 \o <<"5">>

SubjectLonger == <<"F", "i", "x", " ">> \o Cve202012345

SubjectSeveral == Cve20201234 \o <<" ">> \o Lower(Cve20219999)

SubjectGhsa == <<"F", "i", "x", " ">> \o GhsaId

\* the commits handed to associate_with_commits; <<>> is a missing hash
TierACommits ==
    { [hash |-> ShaAbc123,   subject |-> SubjectFix9999],
      [hash |-> ShaAbcd111,  subject |-> SubjectTwice1234],
      [hash |-> ShaDeadbeef, subject |-> SubjectLonger],
      [hash |-> ShaFeed,     subject |-> SubjectSeveral],
      [hash |-> ShaAbc123,   subject |-> SubjectGhsa],
      [hash |-> <<>>,        subject |-> SubjectFix9999] }

\* the cleaned records handed to associate_with_commits
TierARecords ==
    {[id |-> x, raw_id |-> x, references |-> <<>>] :
        x \in {Cve20201234, Cve20219999, GhsaId, None}}

Calls ==
    {[op |-> "normalize_cve_id", arg |-> [raw |-> raw]] : raw \in RawIds}
    \cup {[op |-> "associate_with_commits",
           arg |-> [cves |-> cs, commits |-> l]] :
             cs \in SeqsUpTo(TierARecords, MaxVulns),
             l \in SeqsUpTo(TierACommits, MaxCommits)}
    \cup {[op |-> "commit_exists",
           arg |-> [installed |-> i, path |-> p, log |-> l, sha |-> sh]] :
             i \in BOOLEAN, p \in RepoPaths \ {""}, l \in RepoLogs,
             sh \in ShaArgs}
    \cup {[op |-> "crawl", arg |-> [lines |-> lines]] : lines \in LogStreams}

CallsInit ==
    /\ LinkStart
    /\ CollectIdle
    /\ apc = "called"
    /\ call \in Calls
    /\ answer = [raised |-> FALSE, value |-> <<>>]
    /\ PagesIdle

NormalizeCveId ==
    /\ apc = "called"
    /\ call.op = "normalize_cve_id"
    /\ answer' = Returned(normalize_cve_id(call.arg.raw))
    /\ apc' = "returned"
    /\ UNCHANGED call

CommitExists ==
    /\ apc = "called"
    /\ call.op = "commit_exists"
    /\ answer' = commit_exists_at(call.arg.installed, call.arg.path,
                                  call.arg.log, call.arg.sha)
    /\ apc' = "returned"
    /\ UNCHANGED call

\* crawl on a repository whose git log prints the lines of call.arg.lines
CrawlParses ==
    /\ apc = "called"
    /\ call.op = "crawl"
    /\ answer' = Returned(ParseLog(call.arg.lines))
    /\ apc' = "returned"
    /\ UNCHANGED call

AssociateWithCommits ==
    /\ apc = "called"
    /\ call.op = "associate_with_commits"
    /\ answer' = Returned(associate_with_commits(call.arg.cves,
                                                 call.arg.commits))
    /\ apc' = "returned"
    /\ UNCHANGED call

CallsNext ==
    \/ NormalizeCveId /\ UNCHANGED <<linkVars, collectVars, pageVars>>
    \/ AssociateWithCommits /\ UNCHANGED <<linkVars, collectVars, pageVars>>
    \/ CommitExists /\ UNCHANGED <<linkVars, collectVars, pageVars>>
    \/ CrawlParses /\ UNCHANGED <<linkVars, collectVars, pageVars>>

SpecCalls == CallsInit /\ [][CallsNext]_vars

Returns(op) == apc = "returned" /\ call.op = op

(***************************************************************************)
(* Properties of the single calls                                          *)
(***************************************************************************)
\* raw holds no CVE number as CVE_RE knows it and does not begin with CVE
NothingToRepair(raw) ==
    /\ CveSearch(raw) = None
    /\ ~StartsWith(Upper(Strip(raw)), <<"C", "V", "E">>)

\* C13: normalize_cve_id returns 'CVE-2020-1234' for 'CVE-2020-1234', for
\* 'cve20201234' and for 'CVE 2020 1234', and None for a string that holds
\* no CVE number and has no prefix to repair
C13_NormalizeRepairs ==
    Returns("normalize_cve_id") =>
        /\ call.arg.raw \in {Cve20201234, CveUnhyphenated, CveBlanks} =>
               answer.value = Cve20201234
        /\ Truthy(call.arg.raw) /\ NothingToRepair(call.arg.raw) =>
               answer.value = None

(***************************************************************************)
(* Properties of the cleaner inside the linking run                        *)
(***************************************************************************)
\* the run has cleaned its records
Cleaned == lpc \in {"mark", "strong"} \/ LinkDone

\* C14: after cleaning, the id of a record is the canonical CVE id when the
\* id its source gave is a CVE, the source's own id (a GHSA id) when it is
\* not a CVE, and None only when the source gave no id at all
C14_CleanedIdKeepsAlternate ==
    Cleaned =>
        \A k \in Items :
            LET raw == linked[k].raw_id
            IN  IF ~Truthy(raw) THEN linked[k].id = None
                ELSE IF CveSearch(raw) # None
                THEN linked[k].id = Upper(CveSearch(raw))
                ELSE linked[k].id = raw

\* C15: commit_exists never raises: for every repository path, sha and
\* environment it returns a boolean, and it returns False when git exits
\* non-zero, when the sha is empty and when git is not installed
C15_CommitExistsNeverRaises ==
    Returns("commit_exists") =>
        /\ ~answer.raised
        /\ answer.value \in BOOLEAN
        /\ call.arg.sha = <<>> => answer.value = FALSE
        /\ ~call.arg.installed => answer.value = FALSE
        /\ (call.arg.path # "git"
              \/ ~GitResolves(call.arg.log, call.arg.sha)) => answer.value = FALSE

\* a line that opens a commit: one with five fields or more
IsHeader(line) ==
    FieldSep \in Range(line) /\ Len(SplitOn(line, FieldSep)) >= 5

\* a file-change line: insertions, deletions and path, separated by tabs
IsFileLine(line) ==
    /\ StripWs(line) # <<>>
    /\ FieldSep \notin Range(line)
    /\ Len(SplitOn(line, Tab)) >= 3

\* the file-change lines under the n-th header of a stream
FileLinesUnder(lines, n) ==
    LET heads == SelectSeq([k \in 1..Len(lines) |-> k],
                           LAMBDA k : IsHeader(lines[k]))
        from  == heads[n] + 1
        to    == IF n < Len(heads) THEN heads[n + 1] - 1 ELSE Len(lines)
    IN  SelectSeq(SubSeq(lines, from, to), IsFileLine)

RECURSIVE SumSeq(_)
SumSeq(seq) == IF seq = <<>> THEN 0 ELSE Head(seq) + SumSeq(Tail(seq))

\* the number a token adds: its value when it is a number, nothing otherwise
TokenValue(tok) == IF IsDigit(tok) THEN ParseInt(tok) ELSE 0

PathOf(line) ==
    LET parts == SplitOn(line, Tab)
    IN  StripWs(JoinWith(SubSeq(parts, 3, Len(parts)), Tab))

\* C16: for every commit parsed from a git log stream, files_changed is the
\* number of file-change lines under its header, binary ('-') lines
\* included; insertions and deletions are the sums of the numeric tokens
\* only; files lists the paths in stream order. The lines '3<TAB>1<TAB>foo.py'
\* and '-<TAB>-<TAB>bin.dat' give files_changed 2, insertions 3, deletions 1
\* and files [foo.py, bin.dat]
C16_NumstatTotals ==
    Returns("crawl") =>
        LET lines == call.arg.lines
            out   == answer.value
        IN  /\ Len(out) = Len(SelectSeq(lines, IsHeader))
            /\ \A n \in 1..Len(out) :
                LET fl == FileLinesUnder(lines, n)
                    paths == [k \in 1..Len(fl) |-> PathOf(fl[k])]
                IN  /\ out[n].files_changed = Len(fl)
                    /\ out[n].insertions
                         = SumSeq([k \in 1..Len(fl) |->
                                      TokenValue(SplitOn(fl[k], Tab)[1])])
                    /\ out[n].deletions
                         = SumSeq([k \in 1..Len(fl) |->
                                      TokenValue(SplitOn(fl[k], Tab)[2])])
                    /\ out[n].files = SelectSeq(paths, LAMBDA x : x # <<>>)
            /\ (Len(lines) = 3 /\ IsHeader(lines[1])
                  /\ lines[2] = LineFoo /\ lines[3] = LineBin) =>
                   /\ out[1].files_changed = 2
                   /\ out[1].insertions = 3
                   /\ out[1].deletions = 1
                   /\ out[1].files = <<FooPy, BinDat>>

\* the stream of a header, '3<TAB>1<TAB>foo.py' and '-<TAB>-<TAB>bin.dat',
\* parsed into one commit with files_changed 2
C16_Witness ==
    /\ Returns("crawl")
    /\ call.arg.lines = <<HeaderLine(ShaAbc123, SubjectFix9999), LineFoo, LineBin>>
    /\ Len(answer.value) = 1
    /\ answer.value[1].hash = ShaAbc123
    /\ answer.value[1].files_changed = 2
    /\ answer.value[1].insertions = 3
    /\ answer.value[1].files = <<FooPy, BinDat>>

(***************************************************************************)
(* Properties of the linking run: outputs and order of the tiers           *)
(***************************************************************************)
Artifacts == {"out_json", "csv", "commits_json"}

\* C17: a linking run whose repository path is missing, whose path is no
\* git repository or whose vulnerability input is absent or empty ends with
\* a failure result and writes none of the linked JSON, the CSV and the
\* commits JSON; a run that links no vulnerability ends successfully, with
\* its outputs written
C17_FailureWritesNothing ==
    lpc = "done" =>
        /\ (repo_path \in {"", "nodir", "notgit"} \/ cves = <<>>) =>
               exit_code # 0 /\ written = {}
        /\ exit_code # 0 => written = {}
        /\ (exit_code = 0 /\ \A k \in Items : ~linked[k].matched) =>
               written = Artifacts

(***************************************************************************)
(* Properties of the list collect returns                                  *)
(***************************************************************************)
\* the merged entries that are not in the returned list
CutOff == {k \in 1..Len(merged) :
              \A n \in 1..Len(final) : final[n].id # merged[k].id}

\* C18: the list collect returns is ordered by published, descending, the
\* records without published after all that have one; whenever max_items is
\* supplied the list holds at most max_items records, the first max_items
\* of that order
C18_SortedAndTruncated ==
    CollectDone =>
        /\ \A i, j \in 1..Len(final) :
               i < j => /\ ~StrLess(Published(final[i]), Published(final[j]))
                        /\ ~Truthy(final[i].published)
                               => ~Truthy(final[j].published)
        /\ max_items = NoLimit => CutOff = {}
        /\ max_items # NoLimit =>
               /\ Len(final) <= max_items
               /\ Len(final) = Min(max_items, Len(merged))
               /\ \A k \in CutOff, n \in 1..Len(final) :
                      ~StrLess(Published(final[n]), Published(merged[k]))

\* the source tags of the records that reported id
TagsOf(id) ==
    LET recs == Contributing(id) IN {recs[n].source : n \in 1..Len(recs)}

\* the source of the entry of id when the records arrive in the order lst
SourceIn(lst, id) ==
    LET entries == MergeAll(<<>>, lst)
    IN  entries[CHOOSE n \in 1..Len(entries) : entries[n].id = id].source

\* C19: source of a returned record is the '|'-joined list of the tags of
\* the sources that reported its id, each tag once, in lexicographic order,
\* whatever the order in which the records arrived
C19_SourceIsSortedTagList ==
    CollectDone =>
        \A k \in 1..Len(final) :
            LET parts == Split(final[k].source)
            IN  /\ Range(parts) = TagsOf(final[k].id)
                /\ \A i, j \in 1..Len(parts) : i < j => StrLess(parts[i], parts[j])
                /\ final[k].source = SourceIn(Reverse(results), final[k].id)

\* an id reported by circl, then nvd_v2, then nvd is returned with the
\* source 'circl|nvd|nvd_v2'
C19_Witness ==
    /\ CollectDone
    /\ \E k \in 1..Len(final) :
        LET recs == Contributing(final[k].id)
        IN  /\ Len(recs) >= 3
            /\ \E a, b \in 1..Len(recs) :
                   a < b /\ recs[a].source = nvd_v2_tag /\ recs[b].source = nvd_tag
            /\ final[k].source
                   = circl_tag \o <<"|">> \o nvd_tag \o <<"|">> \o nvd_v2_tag

\* record k carries its Tier A result: the strict match of its id against
\* the subjects of all crawled commits, and the tag that goes with it
TierADone(k) ==
    /\ linked[k].match_types # None
    /\ ByTierA(k) <=> (linked[k].id # None /\ Bucket(commits, linked[k].id) # <<>>)

AllTierADone ==
    /\ Len(linked) = Len(cves)
    /\ \A k \in Items : TierADone(k)

C20_State == gitCalls # <<>> => AllTierADone

C20_Step == gitCalls' # gitCalls => AllTierADone /\ lpc = "strong"

\* C20: Tier A is computed for all records over all commits before any
\* Tier B/C work: no commit_exists or grep_commits call is issued for any
\* record until every record has its Tier A result
C20_TierABeforeStrongSignals == [](C20_State) /\ [][C20_Step]_vars

\* a git call has been issued for a record while a later record, which the
\* loop has not reached, already carries its Tier A match
C20_Witness ==
    /\ lpc = "strong"
    /\ gitCalls # <<>>
    /\ \E k \in Items :
        /\ k >= idx
        /\ ByTierA(k)
        /\ linked[k].matched_commits = Dedupe(Bucket(commits, linked[k].id))
        /\ \E n \in 1..Len(gitCalls) : gitCalls[n].item < k

\* the loop of line 144 has passed record k
Processed(k) == (lpc = "strong" /\ k < idx) \/ LinkDone

\* what the references of record k hold: commit hashes and PR numbers
SignalsOf(k) == extract_strong_signals(OrEmpty(linked[k].references))

\* the hits stored under the PR numbers of record k, in PR order
PrHitsOf(k) ==
    LET d == OrEmpty(linked[k].evidence.pr_hits)
    IN  Concat([n \in 1..Len(d) |-> d[n][2]])

\* the hashes Tier B validated for record k: evidence.commit_shas, which
\* lines 164-166 set together with the tag commit_reference
ValidatedOf(k) ==
    IF commit_reference \in TypesOf(k) THEN linked[k].evidence.commit_shas
    ELSE <<>>

C21_State ==
    \A k \in Items :
        Processed(k) /\ ~ByTierA(k) =>
            LET sig   == SignalsOf(k)
                shas  == ValidatedOf(k)
            IN  /\ Len(GrepArgsOf(k)) >= Len(sig.pr_numbers)
                /\ \A n \in 1..Len(sig.pr_numbers) :
                       PrPatterns(sig.pr_numbers[n])[1] \in Range(GrepArgsOf(k))
                /\ IsSubsequence(shas, sig.commit_shas)
                /\ linked[k].matched_commits = Dedupe(shas \o PrHitsOf(k))
                /\ (shas # <<>> /\ PrHitsOf(k) # <<>>) =>
                       linked[k].match_types = <<commit_reference, pr_reference>>

\* the step that handles a record issues its commit_exists calls and then
\* its grep_commits calls, all in this one step
C21_Step ==
    (lpc = "strong" /\ idx <= Len(linked) /\ idx' = idx + 1
        /\ ~linked[idx].matched) =>
        LET added == SubSeq(gitCalls', Len(gitCalls) + 1, Len(gitCalls'))
            sig   == extract_strong_signals(OrEmpty(linked[idx].references))
            firstGrep == {n \in 1..Len(added) : added[n].op = "grep_commits"}
        IN  /\ \A n \in 1..Len(added) : added[n].item = idx
            /\ \A n \in 1..Len(sig.commit_shas) :
                   added[n] = ExistsCall(idx, sig.commit_shas[n])
            /\ \A n \in firstGrep : n > Len(sig.commit_shas)
            /\ sig.pr_numbers # <<>> => firstGrep # {}

\* C21: for a record Tier A left unmatched, Tier B and Tier C stack in one
\* pass: the PR numbers of its references are searched whether or not a
\* commit URL was validated; with both a validated commit URL and a PR with
\* hits the record ends with match_types [commit_reference, pr_reference]
\* and matched_commits the validated hashes, in reference order, followed by
\* the PR hits, in PR order, each hash once at its first place
C21_TiersStack == [](C21_State) /\ [][C21_Step]_vars

\* a finished run with a record whose commit URL was validated and whose
\* pull request was found in another commit: two hashes, the validated one
\* first
C21_Witness ==
    /\ LinkDone
    /\ \E k \in Items :
        /\ ~ByTierA(k)
        /\ ValidatedOf(k) = <<ShaDeadbeef>>
        /\ PrHitsOf(k) = <<ShaFeed>>
        /\ linked[k].matched_commits = <<ShaDeadbeef, ShaFeed>>
        /\ linked[k].match_types = <<commit_reference, pr_reference>>

(***************************************************************************)
(* Tier A as a function of the records and the commit list                 *)
(***************************************************************************)
\* the hashes of the commits of the list that satisfy Naming, in list order
\* (a commit without hash has none)
HashesWhere(list, x, Naming(_, _)) ==
    LET S      == {n \in 1..Len(list) :
                      list[n].hash # <<>> /\ Naming(list[n].subject, x)}
        picked == PickFrom(list, S, 1)
    IN  [n \in 1..Len(picked) |-> picked[n].hash]

\* the subject holds a CVE number, delimited as CVE_RE delimits it, that is
\* x up to case
NamesId(subject, x) ==
    \E n \in 1..Len(CveFindAll(subject)) : Upper(CveFindAll(subject)[n]) = x

TierAGives(Naming(_, _)) ==
    Returns("associate_with_commits") =>
        \A k \in 1..Len(call.arg.cves) :
            call.arg.cves[k].id # None =>
                LET x   == call.arg.cves[k].id
                    out == answer.value[k]
                    hs  == Dedupe(HashesWhere(call.arg.commits, x, Naming))
                IN  /\ out.matched_commits = hs
                    /\ out.matched = (hs # <<>>)

FoundFor(k) ==
    IF ByTierA(k) THEN Bucket(commits, linked[k].id)
    ELSE ValidatedOf(k) \o PrHitsOf(k)

FirstAt(seq, x) == CHOOSE n \in 1..Len(seq) :
                       seq[n] = x /\ \A m \in 1..(n - 1) : seq[m] # x

StrictlySorted(seq) == \A n \in 1..(Len(seq) - 1) : StrLess(seq[n], seq[n + 1])

\* C23: after a linking run every record's matched_commits holds no hash
\* twice and keeps the hashes in the order they were first found,
\* matched_commits_count is its length, and match_types is a sorted list
\* without repetition
C23_LinkedShape ==
    LinkDone =>
        \A k \in Items :
            LET mc == linked[k].matched_commits
            IN  /\ IsInjective(mc)
                /\ Range(mc) = Range(FoundFor(k))
                /\ \A a, b \in 1..Len(mc) :
                       a < b => FirstAt(FoundFor(k), mc[a]) < FirstAt(FoundFor(k), mc[b])
                /\ linked[k].matched_commits_count = Len(mc)
                /\ StrictlySorted(linked[k].match_types)

\* a record whose validated hash is found again by its PR number, next to
\* a second hit: two hashes and two tags remain
C23_Witness ==
    /\ LinkDone
    /\ \E k \in Items :
           /\ Len(FoundFor(k)) > Len(linked[k].matched_commits)
           /\ Len(linked[k].matched_commits) = 2
           /\ Len(linked[k].match_types) = 2

(***************************************************************************)
(* One paginated NVD query, request by request                             *)
(***************************************************************************)
\* the largest totalResults the server reports, and the largest page
MaxTotal == 4

\* the id of the j-th entry the server holds
ServerId(j) == <<"C", "V", "E", "-">> \o DecStr(2000 + j) \o <<"-", "1", "2", "3", "4">>

\* the j-th entry the server holds, as the API of the query prints it
ServerItem(j, v2) ==
    IF v2 THEN NvdV2Cve(ServerId(j), None, Date2020, None)
    ELSE NvdItem(ServerId(j), <<SummaryX>>, Date2020, <<>>)

\* what the server may answer to a request for startIndex from: a page of
\* some entries from there on with some totalResults (0: none reported), a
\* body that is no object, or a failure
PageResponses(from, v2) ==
    {NvdPage([j \in 1..c |-> ServerItem(from + j - 1, v2)], total) :
        c \in 0..MaxTotal, total \in 0..MaxTotal}
    \cup {[kind |-> "ok",
           body |-> [shape |-> "list", items |-> <<>>, totalResults |-> 0]],
          Failure("status")}

PagesInit ==
    /\ LinkStart
    /\ CollectIdle
    /\ ApiIdle
    /\ npc = "loop"
    /\ use_v2 \in BOOLEAN
    /\ startIndex = 0
    /\ nvd_results = <<>>
    /\ sent = <<>>
    /\ received = <<>>

\* one pass of the while loop (lines 204-246, 149-192): the request, the
\* records appended, start_index advanced, the loop left or not
RequestPage ==
    /\ npc = "loop"
    /\ \E resp \in PageResponses(startIndex, use_v2) :
           LET st == NvdPageStep(resp, startIndex, nvd_results, use_v2)
           IN  /\ sent' = Append(sent, startIndex)
               /\ received' = Append(received, resp)
               /\ nvd_results' = st.results
               /\ startIndex' = st.start_index
               /\ npc' = IF st.raised THEN "raised"
                         ELSE IF st.done THEN "returned" ELSE "loop"
    /\ UNCHANGED use_v2

PagesNext == RequestPage /\ UNCHANGED <<linkVars, collectVars, apiVars>>

SpecPages == PagesInit /\ [][PagesNext]_vars

\* the loop sleeps 0.6 s and asks again: a pass that can be made is made
SpecPagesFair == SpecPages /\ WF_vars(PagesNext)

\* the entries of the pages received before the n-th request
ItemsBefore(n) ==
    Concat([m \in 1..(n - 1) |-> received[m].body.items])

GoodPage(resp) == resp.kind = "ok" /\ resp.body.shape = "dict"

C24_State ==
    /\ \A n \in 1..Len(sent) : sent[n] = Len(ItemsBefore(n))
    /\ \A n \in 1..(Len(sent) - 1) :
           /\ GoodPage(received[n])
           /\ received[n].body.items # <<>>
           /\ sent[n] < sent[n + 1]
    /\ (npc = "loop" /\ received # <<>>) =>
           LET last == received[Len(received)]
           IN  /\ GoodPage(last)
               /\ last.body.items # <<>>
               /\ startIndex < last.body.totalResults
    /\ npc = "returned" =>
           LET all == ItemsBefore(Len(received) + 1)
           IN  nvd_results = [n \in 1..Len(all) |->
                                 IF use_v2 THEN NvdV2Record(all[n])
                                 ELSE NvdRecord(all[n])]

\* C24: a paginated NVD query asks for each page with startIndex equal to
\* the number of entries received so far, which grows with every non-empty
\* page; it leaves the loop when startIndex reaches the reported total or a
\* page is empty; it always comes to an end, and when it returns it returns
\* every entry of every page it received
C24_PaginationTerminates ==
    [](npc # "idle" => C24_State) /\ <>(npc # "loop")

\* a query that returned after three pages, the last one non-empty
C24_Witness ==
    /\ npc = "returned"
    /\ Len(sent) = 3
    /\ sent[3] > sent[2]
    /\ Len(nvd_results) > sent[3]

(***************************************************************************)
(* A failing page of a paginated source                                    *)
(***************************************************************************)
Paginated == {"nvd_v2", "nvd_v1"}

TagOfSource(src) == SourceTags[IndexIn(SourceOrder, src)]

\* the requests of the query q that failed (network error, status, body
\* that is no JSON)
FailedRequests(q) == {n \in 1..Len(q.starts) : PageOf(q.resps, n).kind # "ok"}

\* C25: when a page request of a paginated source fails, no request of that
\* source follows it (no retry, no further page), and no record of the
\* source, those of the pages fetched before the failure included, is among
\* the records that are merged or in the source of a merged entry
C25_FailedPageEndsSource ==
    \A k \in 1..Len(queries) :
        (queries[k].src \in Paginated /\ FailedRequests(queries[k]) # {}) =>
            LET q   == queries[k]
                tag == TagOfSource(q.src)
            IN  /\ FailedRequests(q) = {Len(q.starts)}
                /\ \A n \in 1..Len(q.starts) : q.starts[n] = Len(
                       Concat([m \in 1..(n - 1) |-> q.resps[m].body.items]))
                /\ \A n \in 1..Len(results) : results[n].source # tag
                /\ \A n \in 1..Len(merged) :
                       tag \notin Range(Split(merged[n].source))

\* NVD 2.0 failed on its second page while another source reported the id
\* of the first page
C25_Witness ==
    /\ cpc = "done"
    /\ final # <<>>
    /\ \E k \in 1..Len(queries) :
           /\ queries[k].src = "nvd_v2"
           /\ queries[k].starts = <<0, 1>>
           /\ FailedRequests(queries[k]) = {2}

(***************************************************************************)
(* Which record a file-change line is counted in                           *)
(***************************************************************************)
CarriesSep(line) == FieldSep \in Range(line)

\* the positions of the lines of a stream that carry the separator
SepLines(lines) ==
    SelectSeq([k \in 1..Len(lines) |-> k], LAMBDA k : CarriesSep(lines[k]))

\* the file-change lines between the n-th line that carries the separator
\* and the next such line
FileLinesAfterSep(lines, n) ==
    LET heads == SepLines(lines)
        to    == IF n < Len(heads) THEN heads[n + 1] - 1 ELSE Len(lines)
    IN  SelectSeq(SubSeq(lines, heads[n] + 1, to), IsFileLine)

\* C26: the parsed result holds one record per line that carries the
\* separator, in stream order, and every file-change line is counted in the
\* record of the nearest such line before it and in no other (a file-change
\* line before the first of them in none)
C26_FileLinesUnderNearestHeader ==
    Returns("crawl") =>
        LET lines == call.arg.lines
            out   == answer.value
        IN  /\ Len(out) = Len(SepLines(lines))
            /\ \A n \in 1..Len(out) :
                   /\ out[n].hash = SplitOn(lines[SepLines(lines)[n]], FieldSep)[1]
                   /\ out[n].files_changed = Len(FileLinesAfterSep(lines, n))

(***************************************************************************)
(* Shape of a normalized id                                                *)
(***************************************************************************)
\* CVE-<4 digits>-<4 to 7 digits>, in upper case
Canonical(id) ==
    /\ Len(id) \in 13..16
    /\ \A i \in 1..4 : id[i] = <<"C", "V", "E", "-">>[i]
    /\ \A i \in 5..8 : id[i] \in Digits
    /\ id[9] = "-"
    /\ \A i \in 10..Len(id) : id[i] \in Digits

\* C27: whatever string normalize_cve_id is called on, a result that is not
\* None is upper-case and has the shape CVE-<4 digits>-<4 to 7 digits>,
\* with the hyphen after CVE, also for an input written without that hyphen
C27_NormalizedIsCanonical ==
    (Returns("normalize_cve_id") /\ answer.value # None) =>
        Canonical(answer.value)

(***************************************************************************)
(* Records without a normalized id                                         *)
(***************************************************************************)
NullId(k) == linked[k].id = None

\* the hashes Tiers B and C found for record k
StrongFound(k) == ValidatedOf(k) \o PrHitsOf(k)

C28_State ==
    \A k \in Items :
        NullId(k) =>
            /\ ~ByTierA(k)
            /\ linked[k].raw_id = cves[k].id
            /\ ~Processed(k) =>
                   ~linked[k].matched /\ linked[k].matched_commits = <<>>
            /\ Processed(k) =>
                   LET sig == SignalsOf(k)
                   IN  /\ \A n \in 1..Len(sig.commit_shas) :
                              ExistsCall(k, sig.commit_shas[n]) \in Range(gitCalls)
                       /\ \A n \in 1..Len(sig.pr_numbers) :
                              GrepCall(k, PrPatterns(sig.pr_numbers[n])[1])
                                  \in Range(gitCalls)
                       /\ Range(ValidatedOf(k)) \subseteq Range(sig.commit_shas)
                       /\ Range(linked[k].matched_commits) = Range(StrongFound(k))
                       /\ linked[k].matched = (StrongFound(k) # <<>>)
                       /\ TypesOf(k) \subseteq {commit_reference, pr_reference}

\* C28: a record whose normalized id is null is kept in the linker output;
\* Tier A never matches it, whatever the commit subjects hold; Tiers B and C
\* are applied to it, and it is matched exactly when its references gave a
\* validated hash or a PR hit
C28_NullIdOnlyByReferences ==
    /\ C28_State
    /\ LinkDone =>
           /\ Len(linked) = Len(cves)
           /\ "out_json" \in written
           /\ \A k \in Items : CleanOne(cves[k]).id = None => NullId(k)

\* a finished run over commits that name CVE numbers in which a record
\* without id was matched through its references
C28_Witness ==
    /\ LinkDone
    /\ \E n \in 1..Len(commits) : CveFindAll(commits[n].subject) # <<>>
    /\ \E k \in Items :
           /\ cves[k].id = None
           /\ NullId(k)
           /\ linked[k].matched
           /\ StrongFound(k) # <<>>

(***************************************************************************)
(* The records of the output against the records of the input              *)
(***************************************************************************)
\* C29: a successful linking run outputs one record per input record, in
\* input order: the k-th output record is the k-th input record cleaned,
\* whether it is matched or not and whether it has an id or not, and output
\* records with the same id carry the same Tier A result
C29_OneRecordPerInput ==
    LinkDone =>
        /\ Len(linked) = Len(cves)
        /\ \A k \in Items :
               /\ linked[k].raw_id = cves[k].id
               /\ linked[k].id = CleanOne(cves[k]).id
               /\ linked[k].references = cves[k].references
        /\ \A j, k \in Items :
               (linked[j].id = linked[k].id /\ ~NullId(k)) =>
                   /\ ByTierA(j) = ByTierA(k)
                   /\ ByTierA(k) =>
                          /\ linked[j].matched_commits = linked[k].matched_commits
                          /\ linked[k].matched_commits
                                 = Dedupe(Bucket(commits, linked[k].id))

\* two input records written differently share the id CVE-2020-1234 and
\* both get the commit that names it
C29_Witness ==
    /\ LinkDone
    /\ Len(linked) = 2
    /\ cves[1].id # cves[2].id
    /\ linked[1].id = Cve20201234
    /\ linked[2].id = Cve20201234
    /\ linked[1].matched_commits = <<ShaAbcd111>>
    /\ linked[2].matched_commits = <<ShaAbcd111>>

(***************************************************************************)
(* Entries of matched_commits that name one commit                         *)
(***************************************************************************)
\* the commits of the repository that the entry names, in full or abbreviated
CommitsNamed(entry) == {n \in 1..Len(repoLog) : StartsWith(repoLog[n].hash, entry)}

\* C30: in the matched_commits of a finished run no two entries name the
\* same commit, also when one is an abbreviated hash taken from a reference
\* URL and the other the full hash of that commit
C30_OneEntryPerCommit ==
    LinkDone =>
        \A k \in Items :
            \A a, b \in 1..Len(linked[k].matched_commits) :
                a # b => CommitsNamed(linked[k].matched_commits[a])
                             \cap CommitsNamed(linked[k].matched_commits[b]) = {}

====
